---- MODULE Spec2Model ----
(***************************************************************************)
(* vibecast: the recommendation-assembly pipeline                          *)
(* (GetPersonalizedRecommendations, personalized.go) and its caller        *)
(* CreatePlaylist / CreatePlaylistAndAddTracks (user.go), over a catalog   *)
(* client whose calls may fail or return unexpected records.               *)
(*                                                                         *)
(* A track is a record [id, artists]; ids and artist ids are naturals.     *)
(* Audio features other than tempo are in hundredths (0..100), tempo is in *)
(* BPM.  The saved-tracks endpoint holds the tracks 1..nSaved; ids above   *)
(* nSaved are tracks of the catalog the user has not liked.                *)
(***************************************************************************)
EXTENDS Integers, Sequences, FiniteSets, TLC

VARIABLES
    pc,             \* position of the run inside CreatePlaylist
    nSaved,         \* number of tracks the saved-tracks endpoint holds
    credits,        \* catalog: how tracks credit artists, [width, spread]
    featureAnswers, \* the audio features the catalog answers stage 1 with
    mood,           \* mood string handed to GetPersonalizedRecommendations
    likedTracks,    \* set of liked track ids (map[string]bool)
    likedArtists,   \* set of liked artist ids (map[string]bool)
    topArtists,     \* top artists (artist ids), <<>> on error
    topTracks,      \* top tracks (track ids), <<>> on error
    likedTrackIDs,  \* liked ids in the order the map iteration produced them
    userLikedSongs, \* full records returned by get-tracks
    allTracks,      \* the CandidatePool
    seenTrackIDs,   \* ids already in the pool
    poolLog,        \* len(allTracks) at the end of each stage so far
    ret,            \* what GetPersonalizedRecommendations returned: [tracks, err]
    calls,          \* number of calls issued per catalog operation
    faults,         \* number of failed or anomalous catalog responses so far
    playlist,       \* the account's playlist written by the run: [created, adds]
    writer,         \* CreatePlaylistAndAddTracks: [reqs, err], calls made and result
    server,         \* the HTTP server: [authenticatedClient, handler]
    artistGenreCache, \* genre stage: the genres obtained, by artist id
    mining,         \* playlist stage: [reqs, tracks], requests sent and tracks mined
    sentLog         \* the batches and seeds sent so far: [getTracks, audioFeatures,
                    \* recommendations]

vars == <<pc, nSaved, credits, featureAnswers, mood, likedTracks, likedArtists,
          topArtists, topTracks, likedTrackIDs, userLikedSongs, allTracks,
          seenTrackIDs, poolLog, ret, calls, faults, playlist, writer, server,
          artistGenreCache, mining, sentLog>>

-----------------------------------------------------------------------------
(* Program constants *)

PoolFloor == 50
PlaylistSize == 50
maxSongsPerArtist == 5
TrackBatch == 20
AudioBatch == 100
ProbeBatch == 5
PageLimit == 50
LibraryCap == 1000
StageCap == 100
MinedCap == 200
SearchLimit == 5
RecommendLimit == 100
TopLimit == 5
MaxSeeds == 5
MaxSeedArtists == 2

(* Bounds of the model *)

\* failed or anomalous catalog responses per run
MaxFaults == 1
\* lists up to this length are permuted in every way
MaxPermute == 2
\* ids nSaved+1 .. nSaved+MaxForeign are catalog tracks the user has not liked
MaxForeign == 1
\* playlists a playlist search returns
MaxPlaylists == 1

-----------------------------------------------------------------------------
(* Sequences *)

min(x, y) == IF x < y THEN x ELSE y

Range(s) == {s[i] : i \in 1..Len(s)}

Reverse(s) == [i \in 1..Len(s) |-> s[Len(s) + 1 - i]]

IDs(tracks) == [i \in 1..Len(tracks) |-> tracks[i].id]

\* The elements of a set of positive numbers in ascending order.
SetToSeq(S) ==
    IF S = {} THEN <<>>
    ELSE SelectSeq([i \in 1..(CHOOSE x \in S : \A y \in S : y <= x) |-> i],
                   LAMBDA i : i \in S)

One(S) == CHOOSE v \in S : TRUE

\* A loop over the indices lo..hi: st is the loop's state, Step its body.
RECURSIVE FoldRange(_, _, _, _)
FoldRange(Step(_, _), lo, hi, st) ==
    IF lo > hi THEN st
    ELSE IF lo = hi THEN Step(st, lo)
    ELSE One({FoldRange(Step, ((lo + hi) \div 2) + 1, hi, s2) :
                s2 \in {FoldRange(Step, lo, (lo + hi) \div 2, st)}})

AllOrders(s) ==
    {[i \in 1..Len(s) |-> s[p[i]]] :
        p \in {q \in [1..Len(s) -> 1..Len(s)] : Range(q) = 1..Len(s)}}

\* A shuffle that overwrites instead of swapping: every position gets the
\* first element.
ArrangementsOverwriting(s) == {[i \in 1..Len(s) |-> s[1]]}

\* The orders a randomised traversal or permutation of s is drawn from: all of
\* them for a short s, some of them for a long one.
Arrangements(s) ==
    IF Len(s) <= MaxPermute THEN AllOrders(s)
    ELSE {s, Reverse(s)}

-----------------------------------------------------------------------------
(* The catalog *)

\* The record the catalog holds for track t: it credits cr.width artists,
\* starting at artist 1 + ((t-1) mod cr.spread).
FullTrack(cr, t) ==
    [id |-> t,
     artists |-> [i \in 1..cr.width |-> ((t - 1) % cr.spread) + i]]

FullTracks(cr, ids) == [i \in 1..Len(ids) |-> FullTrack(cr, ids[i])]

\* The page of saved tracks at an offset: at most PageLimit ids.
SavedPage(n, offset) ==
    [i \in 1..min(PageLimit, IF n > offset THEN n - offset ELSE 0) |-> offset + i]

\* Catalog tracks the user has not liked.
Foreign(n) == (n + 1)..(n + MaxForeign)

-----------------------------------------------------------------------------
(* Liked-Library Index *)

\* A paging loop that leaves the loop on a failed page instead of returning the
\* error: the pages fetched so far are kept.
RECURSIVE LikedTracksLoopBreakOnError(_, _, _, _, _)
LikedTracksLoopBreakOnError(n, offset, failAt, acc, reqs) ==
    LET page == SavedPage(n, offset)
        sent == Append(reqs, offset)
        k == Len(sent)
    IN  IF failAt = k THEN [err |-> FALSE, ids |-> acc, calls |-> k, offsets |-> sent]
        ELSE IF Len(page) = 0
             THEN [err |-> FALSE, ids |-> acc, calls |-> k, offsets |-> sent]
        ELSE IF Len(page) < PageLimit
             THEN [err |-> FALSE, ids |-> acc \cup Range(page), calls |-> k,
                   offsets |-> sent]
        ELSE IF offset + PageLimit >= LibraryCap
             THEN [err |-> FALSE, ids |-> acc \cup Range(page), calls |-> k,
                   offsets |-> sent]
        ELSE LikedTracksLoopBreakOnError(n, offset + PageLimit, failAt,
                                         acc \cup Range(page), sent)

\* A paging loop without the test of line 1027: it stops at the end of the
\* data only.
RECURSIVE LikedTracksLoopUncapped(_, _, _, _, _)
LikedTracksLoopUncapped(n, offset, failAt, acc, reqs) ==
    LET page == SavedPage(n, offset)
        sent == Append(reqs, offset)
        k == Len(sent)
    IN  IF failAt = k THEN [err |-> TRUE, ids |-> {}, calls |-> k, offsets |-> sent]
        ELSE IF Len(page) = 0
             THEN [err |-> FALSE, ids |-> acc, calls |-> k, offsets |-> sent]
        ELSE IF Len(page) < PageLimit
             THEN [err |-> FALSE, ids |-> acc \cup Range(page), calls |-> k,
                   offsets |-> sent]
        ELSE LikedTracksLoopUncapped(n, offset + PageLimit, failAt,
                                     acc \cup Range(page), sent)

\* The paging loop of GetUserLikedTracks from a given offset; reqs holds the
\* offsets requested so far; the call number failAt fails (0: none does).
\* [err, ids, calls, offsets].
RECURSIVE LikedTracksLoop(_, _, _, _, _)
LikedTracksLoop(n, offset, failAt, acc, reqs) ==
    LET page == SavedPage(n, offset)
        sent == Append(reqs, offset)
        k == Len(sent)
    IN  IF failAt = k THEN [err |-> TRUE, ids |-> {}, calls |-> k, offsets |-> sent]
        ELSE IF Len(page) = 0
             THEN [err |-> FALSE, ids |-> acc, calls |-> k, offsets |-> sent]
        ELSE IF Len(page) < PageLimit
             THEN [err |-> FALSE, ids |-> acc \cup Range(page), calls |-> k,
                   offsets |-> sent]
        ELSE IF offset + PageLimit >= LibraryCap
             THEN [err |-> FALSE, ids |-> acc \cup Range(page), calls |-> k,
                   offsets |-> sent]
        ELSE LikedTracksLoop(n, offset + PageLimit, failAt,
                             acc \cup Range(page), sent)

\* [err, ids, calls]; err is "none", "FetchFailed" (a page failed, line 1003)
\* or "NoLikedSongs" (line 1034).
GetUserLikedTracks(n, failAt) ==
    LET r == LikedTracksLoop(n, 0, failAt, {}, <<>>)
    IN  IF r.err THEN [err |-> "FetchFailed", ids |-> {}, calls |-> r.calls]
        ELSE IF r.ids = {} THEN [err |-> "NoLikedSongs", ids |-> {}, calls |-> r.calls]
        ELSE [err |-> "none", ids |-> r.ids, calls |-> r.calls]

ArtistsOfTracks(cr, ids) ==
    UNION {Range(FullTrack(cr, t).artists) : t \in ids}

\* GetUserLikedArtists pages the same endpoint and collects the credited
\* artists; an error or an empty result yields no map (the caller drops err).
GetUserLikedArtists(cr, n, failAt) ==
    LET r == LikedTracksLoop(n, 0, failAt, {}, <<>>)
    IN  IF r.err THEN [err |-> TRUE, ids |-> {}, calls |-> r.calls]
        ELSE IF ArtistsOfTracks(cr, r.ids) = {}
             THEN [err |-> TRUE, ids |-> {}, calls |-> r.calls]
        ELSE [err |-> FALSE, ids |-> ArtistsOfTracks(cr, r.ids), calls |-> r.calls]

-----------------------------------------------------------------------------
(* Pool insertion and post-processing *)

\* The body of the loop without the liked test of line 367.
AddUniqueUnliked(st, liked, t) ==
    IF t.id \notin st.seen
    THEN [pool |-> Append(st.pool, t), seen |-> st.seen \cup {t.id}]
    ELSE st

\* Lines 365-372, the body of addUniqueTracks' loop: append the track if it is
\* liked and not yet seen.  st = [pool, seen].
AddUnique(st, liked, t) ==
    IF t.id \notin st.seen /\ t.id \in liked
    THEN [pool |-> Append(st.pool, t), seen |-> st.seen \cup {t.id}]
    ELSE st

addUniqueTracks(pool, seen, liked, tracks) ==
    FoldRange(LAMBDA st, i : AddUnique(st, liked, tracks[i]), 1, Len(tracks),
              [pool |-> pool, seen |-> seen])

\* A re-filter that lets every track through.
FilterNothing(tracks, liked) == tracks

FilterTracksByLikedSongs(tracks, liked) ==
    IF liked = {} THEN tracks
    ELSE SelectSeq(tracks, LAMBDA t : t.id \in liked)

ArtistIDs(tracks) == UNION {Range(tracks[i].artists) : i \in 1..Len(tracks)}

\* A first pass that starts every artist's count at one instead of zero.
CountSongsPerArtistFromOne(tracks) ==
    [a \in ArtistIDs(tracks) |->
        1 + Cardinality({i \in 1..Len(tracks) : a \in Range(tracks[i].artists)})]

\* First pass of LimitSongsPerArtist: credits per artist over the whole input.
CountSongsPerArtist(tracks) ==
    [a \in ArtistIDs(tracks) |->
        Cardinality(UNION {{<<i, j>> : j \in {k \in 1..Len(tracks[i].artists) :
                                                   tracks[i].artists[k] = a}} :
                           i \in 1..Len(tracks)})]

\* The test of line 928 off by one upwards: count > limit + 1.
FirstOverLimitLax(artists, count, limit) ==
    LET over == {j \in 1..Len(artists) : count[artists[j]] > limit + 1}
    IN  IF over = {} THEN 0 ELSE CHOOSE j \in over : \A k \in over : j <= k

\* The test of line 928 off by one downwards: count >= limit.
FirstOverLimitStrict(artists, count, limit) ==
    LET over == {j \in 1..Len(artists) : count[artists[j]] >= limit}
    IN  IF over = {} THEN 0 ELSE CHOOSE j \in over : \A k \in over : j <= k

\* Index of the first credited artist whose count is above the limit, 0 if none.
FirstOverLimit(artists, count, limit) ==
    LET over == {j \in 1..Len(artists) : count[artists[j]] > limit}
    IN  IF over = {} THEN 0 ELSE CHOOSE j \in over : \A k \in over : j <= k

\* The inner loop over an admitted track's artists: one decrement per credit.
RECURSIVE DecrementAll(_, _)
DecrementAll(count, artists) ==
    IF artists = <<>> THEN count
    ELSE DecrementAll([count EXCEPT ![Head(artists)] = @ - 1], Tail(artists))

\* A second pass that puts every kept track in front of the ones kept before.
LimitStepPrepending(st, t, limit) ==
    LET j == FirstOverLimit(t.artists, st.count, limit)
    IN  IF t.id \in st.processed THEN st
        ELSE IF j # 0 THEN [st EXCEPT !.count[t.artists[j]] = @ - 1]
        ELSE [count |-> DecrementAll(st.count, t.artists),
              limited |-> <<t>> \o st.limited,
              processed |-> st.processed \cup {t.id}]

\* Lines 916-946, the body of the second pass.  st = [count, limited, processed].
LimitStep(st, t, limit) ==
    LET j == FirstOverLimit(t.artists, st.count, limit)
    IN  IF t.id \in st.processed THEN st
        ELSE IF j # 0 THEN [st EXCEPT !.count[t.artists[j]] = @ - 1]
        ELSE [count |-> DecrementAll(st.count, t.artists),
              limited |-> Append(st.limited, t),
              processed |-> st.processed \cup {t.id}]

LimitSongsPerArtist(tracks, limit) ==
    IF Len(tracks) = 0 \/ limit <= 0 THEN tracks
    ELSE FoldRange(LAMBDA st, i : LimitStep(st, tracks[i], limit), 1, Len(tracks),
                   [count |-> CountSongsPerArtist(tracks), limited |-> <<>>,
                    processed |-> {}]).limited

\* No slice: the list is returned at its full length.
TruncateOff(tracks) == tracks

\* The slice filteredTracks[:50].
Truncate(tracks) ==
    IF Len(tracks) > PlaylistSize THEN SubSeq(tracks, 1, PlaylistSize) ELSE tracks

\* Number of tracks of a list that credit artist a.
CreditCount(tracks, a) ==
    Cardinality({i \in 1..Len(tracks) : a \in Range(tracks[i].artists)})

-----------------------------------------------------------------------------
(* Mood Matcher *)

\* AudioFeatureThresholds; a field the source leaves out holds Go's zero value.
Thresholds(minE, maxE, minD, maxD, minV, maxV, minT, maxT, minA, maxA, minI, maxI) ==
    [MinEnergy |-> minE, MaxEnergy |-> maxE,
     MinDanceability |-> minD, MaxDanceability |-> maxD,
     MinValence |-> minV, MaxValence |-> maxV,
     MinTempo |-> minT, MaxTempo |-> maxT,
     MinAcousticness |-> minA, MaxAcousticness |-> maxA,
     MinInstrumentalness |-> minI, MaxInstrumentalness |-> maxI]

\* A threshold switch whose default branch serves the tag "neutral" only.
GetMoodThresholdsNeutralOnly(m) ==
    CASE m = "energetic"  -> Thresholds(70, 100, 60, 100, 50, 100, 120, 300, 0, 40, 0, 30)
      [] m = "relaxed"    -> Thresholds(0, 50, 0, 60, 0, 70, 0, 110, 40, 0, 0, 100)
      [] m = "intense"    -> Thresholds(80, 100, 0, 100, 0, 50, 100, 300, 0, 30, 0, 50)
      [] m = "thoughtful" -> Thresholds(0, 60, 0, 50, 0, 60, 0, 120, 30, 0, 20, 0)
      [] m = "neutral"    -> Thresholds(0, 100, 0, 100, 0, 100, 0, 300, 0, 0, 0, 0)
      [] OTHER            -> Thresholds(0, 0, 0, 0, 0, 0, 0, 0, 0, 0, 0, 0)

GetMoodThresholds(m) ==
    CASE m = "energetic"  -> Thresholds(70, 100, 60, 100, 50, 100, 120, 300, 0, 40, 0, 30)
      [] m = "relaxed"    -> Thresholds(0, 50, 0, 60, 0, 70, 0, 110, 40, 0, 0, 100)
      [] m = "intense"    -> Thresholds(80, 100, 0, 100, 0, 50, 100, 300, 0, 30, 0, 50)
      [] m = "thoughtful" -> Thresholds(0, 60, 0, 50, 0, 60, 0, 120, 30, 0, 20, 0)
      [] OTHER            -> Thresholds(0, 100, 0, 100, 0, 100, 0, 300, 0, 0, 0, 0)

\* A genre lookup that remembers the run: once the run has looked up an
\* artist it answers with the default list.
GetMoodMatchingGenresStateful(m) ==
    IF calls.getArtist > 0 THEN <<"pop", "rock", "indie", "alternative">>
    ELSE IF m = "relaxed" THEN <<"chill", "acoustic">>
    ELSE <<"pop">>

GetMoodMatchingGenres(m) ==
    CASE m = "energetic" ->
            <<"dance", "edm", "electro", "house", "techno", "trance", "dubstep",
              "pop", "power-pop", "dance-pop", "party", "club",
              "disco", "funk", "happy", "upbeat", "workout", "gym">>
      [] m = "relaxed" ->
            <<"chill", "acoustic", "ambient", "lofi", "sleep", "study",
              "jazz", "soul", "r-n-b", "folk", "indie-folk",
              "meditation", "calm", "piano", "classical", "soft-rock">>
      [] m = "intense" ->
            <<"rock", "metal", "hard-rock", "heavy-metal", "punk", "hardcore",
              "alt-rock", "alternative", "grunge", "industrial",
              "emo", "post-hardcore", "thrash", "death-metal">>
      [] m = "thoughtful" ->
            <<"indie", "indie-pop", "indie-rock", "alternative", "folk",
              "singer-songwriter", "ambient", "post-rock", "experimental",
              "classical", "instrumental", "soundtrack", "piano", "sad">>
      [] OTHER -> <<"pop", "rock", "indie", "alternative">>

getMoodPlaylistSearchQueries(m) ==
    CASE m = "energetic" ->
            <<"workout energy", "party upbeat", "dance energy",
              "gym motivation", "high energy">>
      [] m = "relaxed" ->
            <<"chill relax", "calm acoustic", "sleep peaceful",
              "meditation calm", "lofi chill">>
      [] m = "intense" ->
            <<"intense rock", "metal hardcore", "workout intense",
              "running intense", "epic intense">>
      [] m = "thoughtful" ->
            <<"thoughtful indie", "ambient calm", "focus concentration",
              "study peaceful", "introspective mood">>
      [] OTHER -> <<"mood " \o m>>

\* Genre seeds of the recommendation request, before slicing.
MoodSeedGenres(m) ==
    CASE m = "energetic"  -> <<"pop", "dance", "edm", "party", "house">>
      [] m = "relaxed"    -> <<"chill", "acoustic", "ambient", "jazz", "lofi">>
      [] m = "intense"    -> <<"rock", "metal", "punk", "hard-rock", "alt-rock">>
      [] m = "thoughtful" -> <<"indie", "folk", "classical", "singer-songwriter", "ambient">>
      [] OTHER            -> <<"pop", "indie", "alternative", "rock", "electronic">>

matchesMood(f, th) ==
    /\ ~(th.MinEnergy > 0 /\ f.Energy < th.MinEnergy)
    /\ ~(th.MaxEnergy < 100 /\ f.Energy > th.MaxEnergy)
    /\ ~(th.MinDanceability > 0 /\ f.Danceability < th.MinDanceability)
    /\ ~(th.MaxDanceability < 100 /\ f.Danceability > th.MaxDanceability)
    /\ ~(th.MinValence > 0 /\ f.Valence < th.MinValence)
    /\ ~(th.MaxValence < 100 /\ f.Valence > th.MaxValence)
    /\ ~(th.MinTempo > 0 /\ f.Tempo < th.MinTempo)
    /\ ~(th.MaxTempo < 300 /\ f.Tempo > th.MaxTempo)
    /\ ~(th.MinAcousticness > 0 /\ f.Acousticness < th.MinAcousticness)
    /\ ~(th.MaxAcousticness < 100 /\ f.Acousticness > th.MaxAcousticness)
    /\ ~(th.MinInstrumentalness > 0 /\ f.Instrumentalness < th.MinInstrumentalness)
    /\ ~(th.MaxInstrumentalness < 100 /\ f.Instrumentalness > th.MaxInstrumentalness)

\* strings.ToLower on the letters that occur in genre tags.
LowerChar(c) ==
    CASE c = "A" -> "a" [] c = "B" -> "b" [] c = "C" -> "c" [] c = "D" -> "d"
      [] c = "E" -> "e" [] c = "F" -> "f" [] c = "G" -> "g" [] c = "H" -> "h"
      [] c = "I" -> "i" [] c = "J" -> "j" [] c = "K" -> "k" [] c = "L" -> "l"
      [] c = "M" -> "m" [] c = "N" -> "n" [] c = "O" -> "o" [] c = "P" -> "p"
      [] c = "Q" -> "q" [] c = "R" -> "r" [] c = "S" -> "s" [] c = "T" -> "t"
      [] c = "U" -> "u" [] c = "V" -> "v" [] c = "W" -> "w" [] c = "X" -> "x"
      [] c = "Y" -> "y" [] c = "Z" -> "z" [] OTHER -> c

RECURSIVE ToLower(_)
ToLower(str) ==
    IF Len(str) = 0 THEN str
    ELSE LowerChar(SubSeq(str, 1, 1)) \o ToLower(SubSeq(str, 2, Len(str)))

\* strings.Contains
Contains(str, sub) ==
    \E i \in 1..(Len(str) - Len(sub) + 1) : SubSeq(str, i, i + Len(sub) - 1) = sub

\* A comparison that accepts a genre tag only when it equals a mood genre.
GenresMatchExact(artistGenres, moodGenres) ==
    \E i \in 1..Len(artistGenres) :
        \E k \in 1..Len(moodGenres) :
            ToLower(artistGenres[i]) = ToLower(moodGenres[k])

\* Lines 497-518: some genre tag of the artist equals, or contains, a mood genre.
GenresMatchMood(artistGenres, moodGenres) ==
    \E i \in 1..Len(artistGenres) :
        \E k \in 1..Len(moodGenres) :
            \/ ToLower(artistGenres[i]) = ToLower(moodGenres[k])
            \/ Contains(ToLower(artistGenres[i]), ToLower(moodGenres[k]))

-----------------------------------------------------------------------------
(* Catalog responses *)

\* What a call returns instead of its regular answer.
Anomalies(n) ==
    {[kind |-> "error", id |-> 0], [kind |-> "duplicate", id |-> 0]}
        \cup {[kind |-> "foreign", id |-> f] : f \in Foreign(n)}

Regular == [kind |-> "ok", id |-> 0]

\* client.GetTracks for a batch of ids: the records in request order; an
\* anomalous answer fails, repeats the first record, or carries a record that
\* was not asked for.  A failed call contributes no record (err != nil).
GetTracks(cr, ids, a) ==
    CASE a.kind = "error"     -> <<>>
      [] a.kind = "duplicate" -> FullTracks(cr, ids \o <<ids[1]>>)
      [] a.kind = "foreign"   -> FullTracks(cr, <<a.id>> \o ids)
      [] OTHER                -> FullTracks(cr, ids)

\* Consecutive batches that take one element more than k.
ChunksOneMore(s, k) ==
    [b \in 1..((Len(s) + k) \div (k + 1)) |->
        SubSeq(s, (b - 1) * (k + 1) + 1, min(b * (k + 1), Len(s)))]

\* Consecutive batches of at most k elements.
Chunks(s, k) ==
    [b \in 1..((Len(s) + k - 1) \div k) |->
        SubSeq(s, (b - 1) * k + 1, min(b * k, Len(s)))]

\* Lines 385-415 and 690-709: get-tracks per batch of 20, answers appended in
\* order; batch number bad gets the anomalous answer a.
RECURSIVE FetchBatches(_, _, _, _, _)
FetchBatches(cr, batches, b, bad, a) ==
    IF b > Len(batches) THEN <<>>
    ELSE GetTracks(cr, batches[b], IF b = bad THEN a ELSE Regular)
            \o FetchBatches(cr, batches, b + 1, bad, a)

FetchFullTracks(cr, ids, bad, a) ==
    FetchBatches(cr, Chunks(ids, TrackBatch), 1, bad, a)

\* Audio features the catalog holds
Hype == [Energy |-> 90, Danceability |-> 80, Valence |-> 70, Tempo |-> 128,
         Acousticness |-> 10, Instrumentalness |-> 0]
Calm == [Energy |-> 30, Danceability |-> 40, Valence |-> 40, Tempo |-> 90,
         Acousticness |-> 60, Instrumentalness |-> 30]
Plain == [Energy |-> 50, Danceability |-> 50, Valence |-> 50, Tempo |-> 100,
          Acousticness |-> 0, Instrumentalness |-> 0]

\* A profile assigns its vectors to the tracks cyclically.
FeatureProfiles == {<<Hype>>, <<Calm>>, <<Plain>>, <<Hype, Calm>>}

FeaturesOf(fp, t) == fp[((t - 1) % Len(fp)) + 1]

\* Lines 1204-1227: the full batches of AnalyzeAudioFeaturesForMood; the call
\* number failAt (the probe is call 1) fails and its batch is skipped.
RECURSIVE AnalyzeBatches(_, _, _, _, _)
AnalyzeBatches(batches, b, failAt, fp, th) ==
    IF b > Len(batches) THEN <<>>
    ELSE (IF failAt = b + 1 THEN <<>>
          ELSE SelectSeq(batches[b], LAMBDA t : matchesMood(FeaturesOf(fp, t), th)))
            \o AnalyzeBatches(batches, b + 1, failAt, fp, th)

\* An analysis that takes a failed probe for a match of every track.
AnalyzeAudioFeaturesProbeIgnored(trackIDs, m, fp, failAt) ==
    IF Len(trackIDs) = 0
    THEN [err |-> TRUE, ids |-> <<>>, calls |-> 0, probe |-> <<>>,
          batches |-> <<>>]
    ELSE IF failAt = 1
    THEN [err |-> FALSE, ids |-> trackIDs, calls |-> 1,
          probe |-> SubSeq(trackIDs, 1, min(ProbeBatch, Len(trackIDs))),
          batches |-> <<SubSeq(trackIDs, 1, min(ProbeBatch, Len(trackIDs)))>>]
    ELSE [err |-> FALSE,
          ids |-> AnalyzeBatches(Chunks(trackIDs, AudioBatch), 1, failAt, fp,
                                 GetMoodThresholds(m)),
          calls |-> 1 + Len(Chunks(trackIDs, AudioBatch)),
          probe |-> SubSeq(trackIDs, 1, min(ProbeBatch, Len(trackIDs))),
          batches |-> <<SubSeq(trackIDs, 1, min(ProbeBatch, Len(trackIDs)))>>
                         \o Chunks(trackIDs, AudioBatch)]

\* Lines 1181-1230.  [err, ids, calls, probe, batches]: batches are the id
\* batches of the requests in the order sent; probe is the batch of the first
\* request (1193-1202); if it fails (failAt = 1) the function returns an error.
AnalyzeAudioFeaturesForMood(trackIDs, m, fp, failAt) ==
    IF Len(trackIDs) = 0
    THEN [err |-> TRUE, ids |-> <<>>, calls |-> 0, probe |-> <<>>,
          batches |-> <<>>]
    ELSE IF failAt = 1
    THEN [err |-> TRUE, ids |-> <<>>, calls |-> 1,
          probe |-> SubSeq(trackIDs, 1, min(ProbeBatch, Len(trackIDs))),
          batches |-> <<SubSeq(trackIDs, 1, min(ProbeBatch, Len(trackIDs)))>>]
    ELSE [err |-> FALSE,
          ids |-> AnalyzeBatches(Chunks(trackIDs, AudioBatch), 1, failAt, fp,
                                 GetMoodThresholds(m)),
          calls |-> 1 + Len(Chunks(trackIDs, AudioBatch)),
          probe |-> SubSeq(trackIDs, 1, min(ProbeBatch, Len(trackIDs))),
          batches |-> <<SubSeq(trackIDs, 1, min(ProbeBatch, Len(trackIDs)))>>
                         \o Chunks(trackIDs, AudioBatch)]

\* The body of the loop without the test of line 442.
AddIfMatchingUnseenOrNot(st, matching, t) ==
    IF t.id \in matching
    THEN [pool |-> Append(st.pool, t), seen |-> st.seen \cup {t.id}]
    ELSE st

\* Lines 440-447, the body of the loop: append the liked record if its id
\* matched and it is not yet in the pool.  st = [pool, seen].
AddIfMatching(st, matching, t) ==
    IF t.id \in matching /\ t.id \notin st.seen
    THEN [pool |-> Append(st.pool, t), seen |-> st.seen \cup {t.id}]
    ELSE st

AddMatching(pool, seen, songs, matching) ==
    FoldRange(LAMBDA st, i : AddIfMatching(st, matching, songs[i]), 1, Len(songs),
              [pool |-> pool, seen |-> seen])

-----------------------------------------------------------------------------
(* Genre stage, lines 452-536 *)

\* Library sizes and catalog profiles of the runs: small libraries under every
\* profile; 60 tracks of one artist; 66 tracks spread over 11 artists; 10
\* tracks of 10 artists.
OneArtist == [width |-> 1, spread |-> 1]

ManyArtists == [width |-> 1, spread |-> 11]

Groups == {[width |-> 6, spread |-> 1], [width |-> 2, spread |-> 2]}

TenArtists == [width |-> 1, spread |-> 10]

Worlds ==
    ({0, 1, 6} \X ({OneArtist} \cup Groups))
        \cup {<<60, OneArtist>>, <<66, ManyArtists>>, <<10, TenArtists>>}

\* Artist ids of the catalogs.
ArtistUniverse == UNION {1..(w[2].spread + w[2].width) : w \in Worlds}

\* Genre tags the catalog holds: the tagged artists carry the tags, the others
\* carry none.  Tagged are all artists, or the odd ones, or (with the tag
\* "acoustic") the artists 1, 3 and 5 only.
GenreProfiles ==
    {[tags |-> t, tagged |-> A] :
        t \in {<<"Indie Pop">>, <<"Acoustic Metal">>},
        A \in {ArtistUniverse, {a \in ArtistUniverse : a % 2 = 1}}}
      \cup {[tags |-> <<"acoustic">>, tagged |-> {1, 3, 5}]}

GenresOf(gp, a) == IF a \in gp.tagged THEN gp.tags ELSE <<>>

\* Lines 497-518 for every artist of the catalog profile at once: whether the
\* tags the catalog holds for the artist match the mood.
ArtistMatches(cr, gp, m) ==
    [a \in 1..(cr.spread + cr.width - 1) |->
        GenresMatchMood(GenresOf(gp, a), GetMoodMatchingGenres(m))]

\* Lines 479-523: the artists of one track from index j on.  st = [match,
\* cache, reqs]; cache is the set of artists whose genres are cached, reqs is
\* the sequence of get-artist requests issued so far and request number failAt
\* fails.
RECURSIVE ArtistLoop(_, _, _, _, _)
ArtistLoop(artists, j, st, failAt, matches) ==
    IF j > Len(artists) THEN st
    ELSE LET a == artists[j]
             cached == a \in st.cache
             reqs == IF cached THEN st.reqs ELSE Append(st.reqs, a)
             failed == ~cached /\ Len(reqs) = failAt
             cache == IF failed THEN st.cache ELSE st.cache \cup {a}
         IN  IF failed
             THEN ArtistLoop(artists, j + 1,
                             [match |-> FALSE, cache |-> cache, reqs |-> reqs],
                             failAt, matches)
             ELSE IF matches[a]
             THEN [match |-> TRUE, cache |-> cache, reqs |-> reqs]
             ELSE ArtistLoop(artists, j + 1,
                             [match |-> FALSE, cache |-> cache, reqs |-> reqs],
                             failAt, matches)

\* Lines 470-533, the body of the loop over the liked records.
\* st = [pool, seen, cache, reqs, stop]; stop is the break of line 530.
GenreStep(st, t, failAt, matches) ==
    IF st.stop \/ t.id \in st.seen THEN st
    ELSE LET r == ArtistLoop(t.artists, 1,
                             [match |-> FALSE, cache |-> st.cache, reqs |-> st.reqs],
                             failAt, matches)
         IN  IF r.match
             THEN [pool |-> Append(st.pool, t), seen |-> st.seen \cup {t.id},
                   cache |-> r.cache, reqs |-> r.reqs,
                   stop |-> Len(st.pool) + 1 >= StageCap]
             ELSE [st EXCEPT !.cache = r.cache, !.reqs = r.reqs]

GenreMatch(pool, seen, songs, matches, failAt) ==
    FoldRange(LAMBDA st, i : GenreStep(st, songs[i], failAt, matches), 1, Len(songs),
              [pool |-> pool, seen |-> seen, cache |-> {}, reqs |-> <<>>,
               stop |-> FALSE])

-----------------------------------------------------------------------------
(* Mood-playlist mining, lines 538-599 *)

\* Track ids a mood playlist holds: every liked track (latest first) followed
\* by tracks the user has not liked, or one liked track twice followed by them.
PlaylistContents(liked, n) ==
    {Reverse(SetToSeq(liked)) \o SetToSeq(Foreign(n)),
     <<CHOOSE x \in liked : \A y \in liked : x <= y,
       CHOOSE x \in liked : \A y \in liked : x <= y>> \o SetToSeq(Foreign(n))}

\* A mining loop that never finds it has mined enough.
MinedNeverEnough(mined) == FALSE

\* Lines 549 and 562: the mined tracks have reached the cap of 200.
MinedEnough(mined) == Len(mined) >= MinedCap

\* Line 555: the playlist search, with its limit; line 568: the items fetch.
\* Both are logged with the number of tracks mined so far.
SearchRequest(mined) == [op |-> "search", limit |-> SearchLimit, mined |-> Len(mined)]

ItemsRequest(mined) == [op |-> "items", limit |-> 0, mined |-> Len(mined)]

\* Lines 561-581: the playlists of one search result from number p on.
\* st = [mined, searches, items, reqs]; the calls of the stage are numbered in
\* the order they are issued and call number failAt fails; reqs logs every
\* request with the number of tracks mined when it is sent.
RECURSIVE PlaylistLoop(_, _, _, _, _)
PlaylistLoop(p, st, np, content, failAt) ==
    IF p > np \/ MinedEnough(st.mined) THEN st
    ELSE LET k == st.searches + st.items + 1
             got == IF k = failAt THEN <<>> ELSE content
         IN  PlaylistLoop(p + 1,
                          [st EXCEPT !.mined = @ \o got, !.items = @ + 1,
                                     !.reqs = Append(@, ItemsRequest(st.mined))],
                          np, content, failAt)

\* Lines 548-582: the search queries from number q on; every search that
\* succeeds returns np playlists.
RECURSIVE MineLoop(_, _, _, _, _, _)
MineLoop(queries, q, st, np, content, failAt) ==
    IF q > Len(queries) \/ MinedEnough(st.mined) THEN st
    ELSE LET k == st.searches + st.items + 1
             searched == [st EXCEPT !.searches = @ + 1,
                                    !.reqs = Append(@, SearchRequest(st.mined))]
         IN  IF k = failAt \/ np = 0
             THEN MineLoop(queries, q + 1, searched, np, content, failAt)
             ELSE MineLoop(queries, q + 1,
                           PlaylistLoop(1, searched, np, content, failAt),
                           np, content, failAt)

MinePlaylists(m, np, content, failAt) ==
    MineLoop(getMoodPlaylistSearchQueries(m), 1,
             [mined |-> <<>>, searches |-> 0, items |-> 0, reqs |-> <<>>],
             np, content, failAt)

\* Lines 587-596, the body of the loop: admit the mined track if it is liked and
\* not yet seen.  st = [pool, seen, stop]; stop is the break of line 593.
Admit(st, liked, t) ==
    IF st.stop THEN st
    ELSE IF t.id \in liked /\ t.id \notin st.seen
    THEN [pool |-> Append(st.pool, t), seen |-> st.seen \cup {t.id},
          stop |-> Len(st.pool) + 1 >= StageCap]
    ELSE st

AdmitMined(pool, seen, liked, mined) ==
    FoldRange(LAMBDA st, i : Admit(st, liked, mined[i]), 1, Len(mined),
              [pool |-> pool, seen |-> seen, stop |-> FALSE])

-----------------------------------------------------------------------------
(* Catalog-recommendation seeding, lines 601-715 *)

\* Lines 610-617
SeedArtists(tops, liked) ==
    IF Len(tops) > 0 /\ liked # {}
    THEN SelectSeq(SubSeq(tops, 1, min(MaxSeedArtists, Len(tops))),
                   LAMBDA a : a \in liked)
    ELSE <<>>

\* Track seeds that take up to 5 top tracks whatever the artist seeds.
SeedTracksUncounted(tops, liked, seedArtists) ==
    IF Len(tops) > 0
    THEN SelectSeq(SubSeq(tops, 1, min(MaxSeeds, Len(tops))),
                   LAMBDA t : t \in liked)
    ELSE <<>>

\* Lines 620-629
SeedTracks(tops, liked, seedArtists) ==
    IF Len(tops) > 0 /\ Len(seedArtists) < MaxSeeds
    THEN SelectSeq(SubSeq(tops, 1, min(MaxSeeds - Len(seedArtists), Len(tops))),
                   LAMBDA t : t \in liked)
    ELSE <<>>

\* Lines 648-668
BuildSeeds(tArtists, tTracks, lArtists, lTracks, m) ==
    LET sa == SeedArtists(tArtists, lArtists)
        st == SeedTracks(tTracks, lTracks, sa)
    IN  [Artists |-> sa, Tracks |-> st,
         Genres |-> IF Len(sa) + Len(st) < MaxSeeds
                    THEN SubSeq(MoodSeedGenres(m), 1,
                                min(MaxSeeds - Len(sa) - Len(st), MaxSeeds))
                    ELSE <<>>]

\* Track ids the catalog recommends: nothing, or the liked tracks followed by
\* tracks the user has not liked.
RecommendationChoices(liked, n) ==
    {<<>>, SetToSeq(liked) \o SetToSeq(Foreign(n))}

\* What the account reports as top artists and top tracks (at most TopLimit).
TopArtistsOf(cr) == SetToSeq(1..min(TopLimit, cr.spread + cr.width - 1))

TopTracksOf(n) == SetToSeq((IF n > TopLimit - 1 THEN n - TopLimit + 2 ELSE 1)..(n + 1))

-----------------------------------------------------------------------------
(* Weather *)

WeatherDescriptions == {"clear sky", "light rain", "mist"}

GetMoodFromWeather(description) ==
    CASE description = "clear sky"       -> "energetic"
      [] description = "overcast clouds" -> "thoughtful"
      [] description = "light rain"      -> "relaxed"
      [] description = "thunderstorm"    -> "intense"
      [] OTHER                           -> "neutral"

-----------------------------------------------------------------------------
(* The run: CreatePlaylist -> GetPersonalizedRecommendations -> writer *)

\* CreatePlaylistAndAddTracks before it is called: no call made, no result.
WriterIdle == [reqs |-> <<>>, err |-> ""]

\* The playlist stage before it runs: no request sent, nothing mined.
MiningIdle == [reqs |-> <<>>, tracks |-> <<>>]

\* No get-tracks batch, audio-features batch or recommendation request sent.
NothingSent == [getTracks |-> <<>>, audioFeatures |-> <<>>, recommendations |-> <<>>]

\* The server without a login and without a request.
ServerIdle == [authenticatedClient |-> FALSE, handler |-> <<>>]

NoCalls ==
    [savedTracks |-> 0, topArtists |-> 0, topTracks |-> 0, getTracks |-> 0,
     audioFeatures |-> 0, getArtist |-> 0, search |-> 0, playlistItems |-> 0,
     recommendations |-> 0, currentUser |-> 0, createPlaylist |-> 0,
     addTracks |-> 0]

Init ==
    /\ pc = "CreatePlaylist"
    /\ \E w \in Worlds : nSaved = w[1] /\ credits = w[2]
    /\ featureAnswers \in FeatureProfiles
    /\ mood = ""
    /\ likedTracks = {}
    /\ likedArtists = {}
    /\ topArtists = <<>>
    /\ topTracks = <<>>
    /\ likedTrackIDs = <<>>
    /\ userLikedSongs = <<>>
    /\ allTracks = <<>>
    /\ seenTrackIDs = {}
    /\ poolLog = <<>>
    /\ ret = [tracks |-> <<>>, err |-> "none"]
    /\ calls = NoCalls
    /\ faults = 0
    /\ playlist = [created |-> 0, adds |-> <<>>]
    /\ writer = WriterIdle
    /\ server = ServerIdle
    /\ artistGenreCache = <<>>
    /\ mining = MiningIdle
    /\ sentLog = NothingSent

world == <<nSaved, credits>>
catalog == <<nSaved, credits, featureAnswers>>
library == <<likedTracks, likedArtists, topArtists, topTracks>>
stage1 == <<likedTrackIDs, userLikedSongs, poolLog>>
pool == <<allTracks, seenTrackIDs>>

\* Which call of a step fails: none, or the first or the last of its k calls
\* while the run's fault budget lasts.
FailPoints(k) == IF faults < MaxFaults THEN {0, 1, k} \cap (0..k) ELSE {0}

\* The same for a get-tracks batch and the anomalous answer it gets.
BadBatches(k) ==
    {[at |-> 0, a |-> Regular]}
        \cup (IF faults < MaxFaults
              THEN {[at |-> b, a |-> x] : b \in {1, k} \cap (1..k),
                                             x \in Anomalies(nSaved)}
              ELSE {})

Fault(at) == IF at = 0 THEN 0 ELSE 1

\* The orders in which Go may traverse the liked-track map.
MapOrders(S) ==
    IF Cardinality(S) <= MaxPermute THEN AllOrders(SetToSeq(S))
    ELSE {SetToSeq(S), Reverse(SetToSeq(S))}

\* A stage guard that compares with the stage cap (100) instead of the floor.
BelowStageCap(tracks) == Len(tracks) < StageCap

\* The stage guards of lines 453, 539 and 602.
BelowFloor(tracks) == Len(tracks) < PoolFloor

\* A caller that goes on whatever GetUserLikedTracks returned.
LibraryUnchecked(r) == TRUE

\* personalized.go 335-341: the checks on what GetUserLikedTracks returned.
LibraryUsable(r) == r.err = "none" /\ r.ids # {}

\* user.go 88-114: greet the user, read the weather, derive the mood.
CreatePlaylist ==
    /\ pc = "CreatePlaylist"
    /\ calls' = [calls EXCEPT !.currentUser = @ + 1]
    /\ \/ /\ pc' = "Failed"
          /\ UNCHANGED mood
       \/ \E d \in WeatherDescriptions :
            /\ mood' = GetMoodFromWeather(d)
            /\ pc' = "GetLiked"
    /\ UNCHANGED <<catalog, library, stage1, pool, ret, faults,
                   playlist, writer, server,
                   artistGenreCache, mining, sentLog>>

\* personalized.go 333-341
GetLiked ==
    /\ pc = "GetLiked"
    /\ \E failAt \in FailPoints(GetUserLikedTracks(nSaved, 0).calls) :
         \E r \in {GetUserLikedTracks(nSaved, failAt)} :
            /\ calls' = [calls EXCEPT !.savedTracks = @ + r.calls]
            /\ faults' = faults + Fault(failAt)
            /\ IF LibraryUsable(r)
               THEN /\ likedTracks' = r.ids
                    /\ pc' = "GetLikedArtists"
                    /\ UNCHANGED ret
               ELSE /\ ret' = [tracks |-> <<>>,
                               err |-> IF r.err # "none" THEN r.err
                                       ELSE "NoLikedSongs"]
                    /\ pc' = "Returned"
                    /\ UNCHANGED likedTracks
    /\ UNCHANGED <<catalog, mood, likedArtists, topArtists, topTracks, stage1,
                   pool, playlist, writer, server,
                   artistGenreCache, mining, sentLog>>

\* personalized.go 347
GetLikedArtists ==
    /\ pc = "GetLikedArtists"
    /\ \E failAt \in FailPoints(GetUserLikedArtists(credits, nSaved, 0).calls) :
         \E r \in {GetUserLikedArtists(credits, nSaved, failAt)} :
            /\ calls' = [calls EXCEPT !.savedTracks = @ + r.calls]
            /\ faults' = faults + Fault(failAt)
            /\ likedArtists' = r.ids
    /\ pc' = "GetTopArtists"
    /\ UNCHANGED <<catalog, mood, likedTracks, topArtists, topTracks, stage1,
                   pool, ret, playlist, writer, server,
                   artistGenreCache, mining, sentLog>>

\* personalized.go 350 (272-297)
GetUserTopArtists ==
    /\ pc = "GetTopArtists"
    /\ \E failAt \in FailPoints(1) :
         /\ topArtists' = IF failAt = 1 THEN <<>> ELSE TopArtistsOf(credits)
         /\ faults' = faults + Fault(failAt)
    /\ calls' = [calls EXCEPT !.topArtists = @ + 1]
    /\ pc' = "GetTopTracks"
    /\ UNCHANGED <<catalog, mood, likedTracks, likedArtists, topTracks, stage1,
                   pool, ret, playlist, writer, server,
                   artistGenreCache, mining, sentLog>>

\* personalized.go 351 (300-325)
GetUserTopTracks ==
    /\ pc = "GetTopTracks"
    /\ \E failAt \in FailPoints(1) :
         /\ topTracks' = IF failAt = 1 THEN <<>> ELSE TopTracksOf(nSaved)
         /\ faults' = faults + Fault(failAt)
    /\ calls' = [calls EXCEPT !.topTracks = @ + 1]
    /\ pc' = "FetchLikedSongs"
    /\ UNCHANGED <<catalog, mood, likedTracks, likedArtists, topArtists, stage1,
                   pool, ret, playlist, writer, server,
                   artistGenreCache, mining, sentLog>>

\* personalized.go 381-417
FetchLikedSongs ==
    /\ pc = "FetchLikedSongs"
    /\ \E order \in MapOrders(likedTracks) :
         \E bad \in BadBatches(Len(Chunks(order, TrackBatch))) :
            /\ likedTrackIDs' = order
            /\ userLikedSongs' = FetchFullTracks(credits, order, bad.at, bad.a)
            /\ calls' = [calls EXCEPT !.getTracks = @ + Len(Chunks(order, TrackBatch))]
            /\ faults' = faults + Fault(bad.at)
            /\ sentLog' = [sentLog EXCEPT !.getTracks = @ \o Chunks(order, TrackBatch)]
    /\ pc' = "AudioStage"
    /\ UNCHANGED <<catalog, mood, library, pool, poolLog, ret,
                   playlist, writer, server, artistGenreCache, mining>>

\* personalized.go 419-450
AudioStage ==
    /\ pc = "AudioStage"
    /\ \E failAt \in FailPoints(AnalyzeAudioFeaturesForMood(likedTrackIDs, mood,
                                                             featureAnswers, 0).calls) :
         \E r \in {AnalyzeAudioFeaturesForMood(likedTrackIDs, mood, featureAnswers,
                                               failAt)} :
            \E added \in {IF r.err THEN [pool |-> allTracks, seen |-> seenTrackIDs]
                          ELSE AddMatching(allTracks, seenTrackIDs,
                                           userLikedSongs, Range(r.ids))} :
               /\ calls' = [calls EXCEPT !.audioFeatures = @ + r.calls]
               /\ faults' = faults + Fault(failAt)
               /\ allTracks' = added.pool
               /\ seenTrackIDs' = added.seen
               /\ sentLog' = [sentLog EXCEPT !.audioFeatures = @ \o r.batches]
    /\ poolLog' = Append(poolLog, Len(allTracks'))
    /\ featureAnswers' = <<>>
    /\ pc' = "GenreStage"
    /\ UNCHANGED <<world, mood, library, likedTrackIDs, userLikedSongs, ret,
                   playlist, writer, server, artistGenreCache, mining>>

\* personalized.go 452-536
GenreStage ==
    /\ pc = "GenreStage"
    /\ IF BelowFloor(allTracks)
       THEN \E gp \in GenreProfiles :
              \E matches \in {ArtistMatches(credits, gp, mood)} :
                 \E failAt \in FailPoints(Len(GenreMatch(allTracks, seenTrackIDs,
                                                userLikedSongs, matches, 0).reqs)) :
                    \E r \in {GenreMatch(allTracks, seenTrackIDs, userLikedSongs,
                                         matches, failAt)} :
                       /\ allTracks' = r.pool
                       /\ seenTrackIDs' = r.seen
                       /\ artistGenreCache' = [a \in r.cache |-> GenresOf(gp, a)]
                       /\ calls' = [calls EXCEPT !.getArtist = @ + Len(r.reqs)]
                       /\ faults' = faults + Fault(failAt)
       ELSE UNCHANGED <<pool, calls, faults, artistGenreCache>>
    /\ poolLog' = Append(poolLog, Len(allTracks'))
    /\ pc' = "PlaylistStage"
    /\ UNCHANGED <<catalog, mood, library, likedTrackIDs, userLikedSongs, ret,
                   playlist, writer, server, mining, sentLog>>

\* personalized.go 538-599
PlaylistStage ==
    /\ pc = "PlaylistStage"
    /\ IF BelowFloor(allTracks)
       THEN \E np \in 0..min(MaxPlaylists, SearchLimit) :
              \E content \in PlaylistContents(likedTracks, nSaved) :
                 \E items \in {FullTracks(credits, content)} :
                    \E k \in {MinePlaylists(mood, np, items, 0)} :
                       \E failAt \in FailPoints(k.searches + k.items) :
                          \E r \in {MinePlaylists(mood, np, items, failAt)} :
                             \E added \in {AdmitMined(allTracks, seenTrackIDs,
                                                      likedTracks, r.mined)} :
                                /\ allTracks' = added.pool
                                /\ seenTrackIDs' = added.seen
                                /\ calls' = [calls EXCEPT
                                                !.search = @ + r.searches,
                                                !.playlistItems = @ + r.items]
                                /\ faults' = faults + Fault(failAt)
                                /\ mining' = [reqs |-> r.reqs,
                                              tracks |-> IDs(r.mined)]
       ELSE UNCHANGED <<pool, calls, faults, mining>>
    /\ poolLog' = Append(poolLog, Len(allTracks'))
    /\ artistGenreCache' = <<>>
    /\ pc' = "RecommendStage"
    /\ UNCHANGED <<catalog, mood, library, likedTrackIDs, userLikedSongs, ret,
                   playlist, writer, server, sentLog>>

\* Lines 648-679: the get-recommendations request of the run: the seeds built
\* from the run's top lists, liked sets and mood, and the result limit.
RecommendationRequest ==
    [seeds |-> BuildSeeds(topArtists, topTracks, likedArtists, likedTracks, mood),
     limit |-> RecommendLimit]

\* personalized.go 601-715
RecommendStage ==
    /\ pc = "RecommendStage"
    /\ IF BelowFloor(allTracks)
       THEN \E failAt \in FailPoints(1) :
              \E recs \in RecommendationChoices(likedTracks, nSaved) :
                 IF failAt = 1 \/ recs = <<>>
                 THEN /\ calls' = [calls EXCEPT !.recommendations = @ + 1]
                      /\ faults' = faults + Fault(failAt)
                      /\ sentLog' = [sentLog EXCEPT !.recommendations =
                                        Append(@, RecommendationRequest)]
                      /\ UNCHANGED pool
                 ELSE \E bad \in BadBatches(Len(Chunks(recs, TrackBatch))) :
                        \E full \in {FetchFullTracks(credits, recs, bad.at, bad.a)} :
                           \E added \in {addUniqueTracks(allTracks, seenTrackIDs,
                                                         likedTracks, full)} :
                              /\ allTracks' = added.pool
                              /\ seenTrackIDs' = added.seen
                              /\ calls' = [calls EXCEPT
                                              !.recommendations = @ + 1,
                                              !.getTracks = @ + Len(Chunks(recs, TrackBatch))]
                              /\ faults' = faults + Fault(bad.at)
                              /\ sentLog' = [sentLog EXCEPT
                                    !.recommendations = Append(@, RecommendationRequest),
                                    !.getTracks = @ \o Chunks(recs, TrackBatch)]
       ELSE UNCHANGED <<pool, calls, faults, sentLog>>
    /\ poolLog' = Append(poolLog, Len(allTracks'))
    /\ mining' = MiningIdle
    /\ pc' = "PostProcess"
    /\ UNCHANGED <<catalog, mood, library, likedTrackIDs, userLikedSongs, ret,
                   playlist, writer, server, artistGenreCache>>

\* personalized.go 717-744
PostProcess ==
    /\ pc = "PostProcess"
    /\ \E filtered \in {FilterTracksByLikedSongs(allTracks, likedTracks)} :
         IF Len(filtered) = 0
         THEN ret' = [tracks |-> <<>>, err |-> "NoMatch"]
         ELSE \E limited \in {LimitSongsPerArtist(filtered, maxSongsPerArtist)} :
                 \E shuffled \in Arrangements(limited) :
                    ret' = [tracks |-> Truncate(shuffled), err |-> "none"]
    /\ pc' = "Returned"
    /\ UNCHANGED <<catalog, mood, library, stage1, pool, calls, faults,
                   playlist, writer, server,
                   artistGenreCache, mining, sentLog>>

\* A caller that checks the error only.
AcceptTracksErrOnly(r) == r.err = "none"

\* user.go 117-127: the caller's checks on what the assembler returned.
AcceptTracks(r) == r.err = "none" /\ Len(r.tracks) # 0

\* The assembler has returned: its locals are gone.
Returned ==
    /\ pc = "Returned"
    /\ pc' = IF AcceptTracks(ret) THEN "WriterUser" ELSE "Failed"
    /\ likedTracks' = {}
    /\ likedArtists' = {}
    /\ topArtists' = <<>>
    /\ topTracks' = <<>>
    /\ likedTrackIDs' = <<>>
    /\ userLikedSongs' = <<>>
    /\ allTracks' = <<>>
    /\ seenTrackIDs' = {}
    /\ poolLog' = <<>>
    /\ sentLog' = NothingSent
    /\ UNCHANGED <<catalog, mood, ret, calls, faults, playlist, writer, server,
                   artistGenreCache, mining>>

\* A guard that lets every list through.
NoTracksCheckOff(tracks) == FALSE

\* user.go 39: the guard on the track list.
NoTracksProvided(tracks) == Len(tracks) = 0

\* A caller that goes on to the next step whatever the call returned.
AfterCallIgnoringError(ok, next) == next

\* The `if err != nil { return ... }` after a call (49-51, 64-66): where the
\* writer goes next.
AfterCall(ok, next) == IF ok THEN next ELSE "Failed"

\* A failed add-tracks call followed by the removal of the playlist.
PlaylistRemoved(p) == [p EXCEPT !.created = @ - 1]

\* user.go 78-80: a failed add-tracks call returns at once; the playlist the
\* run created stays as it is.
PlaylistAfterFailedAdd(p) == p

\* The ids handed to add-tracks, latest first.
TrackIDsReversed(tracks) == Reverse(IDs(tracks))

\* user.go 71-75: trackIDs[i] = tracks[i].ID
TrackIDs(tracks) == [i \in 1..Len(tracks) |-> tracks[i].id]

\* user.go 38-52: CreatePlaylistAndAddTracks up to the current-user call.
WriterUser ==
    /\ pc = "WriterUser"
    /\ IF NoTracksProvided(ret.tracks)
       THEN /\ pc' = "Failed"
            /\ writer' = [writer EXCEPT !.err = "NoTracksProvided"]
            /\ UNCHANGED calls
       ELSE /\ calls' = [calls EXCEPT !.currentUser = @ + 1]
            /\ \E ok \in BOOLEAN :
                 /\ pc' = AfterCall(ok, "WriterCreate")
                 /\ writer' = [reqs |-> Append(writer.reqs, "CurrentUser"),
                               err |-> IF ok THEN "" ELSE "UserLookupFailed"]
    /\ UNCHANGED <<catalog, mood, library, stage1, pool, ret, faults, playlist,
                   server,
                   artistGenreCache, mining, sentLog>>

\* user.go 54-69
WriterCreate ==
    /\ pc = "WriterCreate"
    /\ calls' = [calls EXCEPT !.createPlaylist = @ + 1]
    /\ \E ok \in BOOLEAN :
         /\ pc' = AfterCall(ok, "WriterAdd")
         /\ writer' = [reqs |-> Append(writer.reqs, "CreatePlaylistForUser"),
                       err |-> IF ok THEN "" ELSE "PlaylistCreateFailed"]
         /\ playlist' = IF ok THEN [playlist EXCEPT !.created = @ + 1]
                        ELSE playlist
    /\ UNCHANGED <<catalog, mood, library, stage1, pool, ret, faults, server,
                   artistGenreCache, mining, sentLog>>

\* user.go 71-86
WriterAdd ==
    /\ pc = "WriterAdd"
    /\ calls' = [calls EXCEPT !.addTracks = @ + 1]
    /\ \E ok \in BOOLEAN :
         /\ pc' = IF ok THEN "Succeeded" ELSE "Failed"
         /\ writer' = [reqs |-> Append(writer.reqs, "AddTracksToPlaylist"),
                       err |-> IF ok THEN "nil" ELSE "AddTracksFailed"]
         /\ playlist' = IF ok
                        THEN [playlist EXCEPT !.adds = Append(@, TrackIDs(ret.tracks))]
                        ELSE PlaylistAfterFailedAdd(playlist)
    /\ UNCHANGED <<catalog, mood, library, stage1, pool, ret, faults, server,
                   artistGenreCache, mining, sentLog>>

Next ==
    \/ CreatePlaylist
    \/ GetLiked
    \/ GetLikedArtists
    \/ GetUserTopArtists
    \/ GetUserTopTracks
    \/ FetchLikedSongs
    \/ AudioStage
    \/ GenreStage
    \/ PlaylistStage
    \/ RecommendStage
    \/ PostProcess
    \/ Returned
    \/ WriterUser
    \/ WriterCreate
    \/ WriterAdd

Spec == Init /\ [][Next]_vars

-----------------------------------------------------------------------------
(* Properties *)

\* Positions inside GetPersonalizedRecommendations after the liked-track fetch.
AssemblerPcs ==
    {"GetLikedArtists", "GetTopArtists", "GetTopTracks", "FetchLikedSongs",
     "AudioStage", "GenreStage", "PlaylistStage", "RecommendStage", "PostProcess"}

\* Positions inside CreatePlaylistAndAddTracks, and its successful end.
WriterPcs == {"WriterUser", "WriterCreate", "WriterAdd", "Succeeded"}

\* Calls the genre, playlist-mining and recommendation stages issue.
FallbackCalls ==
    <<calls.getArtist, calls.search, calls.playlistItems, calls.recommendations>>

\* Calls issued by the stages of the pipeline.
StageCalls ==
    calls.getTracks + calls.audioFeatures + calls.getArtist + calls.search
        + calls.playlistItems + calls.recommendations

\* The pool holds a track the user has liked.
PoolHoldsLiked == \E i \in 1..Len(allTracks) : allTracks[i].id \in likedTracks

\* C1: when GetPersonalizedRecommendations returns without error, every track
\* of the returned list has an id of the liked-track set built at the start of
\* the run, whatever the catalog calls returned.
C1_Membership ==
    (pc = "Returned" /\ ret.err = "none")
        => \A i \in 1..Len(ret.tracks) : ret.tracks[i].id \in likedTracks

\* A run returns tracks although its pool held a track that is not liked.
C1_Witness ==
    /\ pc = "Returned" /\ ret.err = "none" /\ Len(ret.tracks) > 0
    /\ \E i \in 1..Len(allTracks) : allTracks[i].id \notin likedTracks

\* C2: in every returned list, each artist is credited by at most
\* maxSongsPerArtist (5) tracks, whether tracks credit one artist or several.
C2_Diversity ==
    \A a \in ArtistIDs(ret.tracks) : CreditCount(ret.tracks, a) <= maxSongsPerArtist

\* Tracks crediting several artists, one of them credited more than 5 times in
\* the pool and exactly 5 times in the returned list.
C2_Witness ==
    /\ pc = "Returned" /\ ret.err = "none" /\ credits.width > 1
    /\ \E a \in ArtistIDs(allTracks) :
          /\ CreditCount(allTracks, a) > maxSongsPerArtist
          /\ CreditCount(ret.tracks, a) = maxSongsPerArtist

\* C3: GetPersonalizedRecommendations never returns an empty list without an
\* error, for every pool, pools of tracks crediting several artists included.
C3_NeverEmptyWithoutError ==
    (pc = "Returned" /\ ret.err = "none") => Len(ret.tracks) > 0

\* C4: every returned list has at most PlaylistSize (50) tracks.
C4_SizeBound == Len(ret.tracks) <= PlaylistSize

\* More than 50 tracks survive the cap per artist and exactly 50 are returned.
C4_Witness ==
    /\ pc = "Returned" /\ ret.err = "none"
    /\ Len(LimitSongsPerArtist(FilterTracksByLikedSongs(allTracks, likedTracks),
                               maxSongsPerArtist)) > PlaylistSize
    /\ Len(ret.tracks) = PlaylistSize

\* C5: at every stage boundary the pool holds no track id twice, also when a
\* catalog answer carries the same track more than once.
C5_NoDuplicates ==
    Cardinality({allTracks[i].id : i \in 1..Len(allTracks)}) = Len(allTracks)

\* After the audio-feature stage: get-tracks returned a record twice and the
\* pool holds that track.
C5_Witness ==
    /\ pc = "GenreStage"
    /\ \E i, j \in 1..Len(userLikedSongs) :
          /\ i # j
          /\ userLikedSongs[i].id = userLikedSongs[j].id
          /\ userLikedSongs[i].id \in seenTrackIDs

\* C6: a step issues get-artist, search, playlist-items or get-recommendations
\* calls (and the recommendation stage its get-tracks calls) only as the genre,
\* playlist or recommendation stage starting with fewer than PoolFloor (50)
\* tracks in the pool; a pool of 50 or more stays so through these stages, so
\* once the audio-feature stage has yielded 50 none of these calls is made.
C6_FallbackOnlyBelowFloor ==
    [][/\ FallbackCalls' # FallbackCalls
            => (pc \in {"GenreStage", "PlaylistStage", "RecommendStage"}
                /\ Len(allTracks) < PoolFloor)
       /\ (pc = "RecommendStage" /\ calls'.getTracks # calls.getTracks)
            => Len(allTracks) < PoolFloor
       /\ (pc \in {"GenreStage", "PlaylistStage", "RecommendStage"}
           /\ Len(allTracks) >= PoolFloor)
            => (Len(allTracks') >= PoolFloor /\ FallbackCalls' = FallbackCalls)]_vars

\* The audio-feature stage yielded 50 tracks or more and the run reached the
\* post-processing without a single call of the later stages.
C6_Witness ==
    /\ pc = "PostProcess"
    /\ Len(allTracks) >= PoolFloor
    /\ calls.audioFeatures > 0
    /\ FallbackCalls = <<0, 0, 0, 0>>

\* C7: the writer is entered, and create-playlist and add-tracks are called,
\* only after the assembler returned a list of at least one track without
\* error; otherwise the run ends and no playlist is created.
C7_WriterOnlyAfterTracks ==
    /\ pc \in WriterPcs => (ret.err = "none" /\ Len(ret.tracks) >= 1)
    /\ (calls.createPlaylist + calls.addTracks > 0 \/ playlist.created > 0)
            => /\ pc \in {"WriterAdd", "Succeeded", "Failed"}
               /\ ret.err = "none"
               /\ Len(ret.tracks) >= 1

\* The run wrote the returned tracks into a playlist it created.
C7_Witness ==
    /\ pc = "Succeeded"
    /\ playlist.created = 1
    /\ playlist.adds = <<IDs(ret.tracks)>>
    /\ Len(ret.tracks) >= 1

\* C8: when the saved-tracks endpoint holds no liked track, the assembler
\* returns an error before any stage call, and the writer is never invoked:
\* no playlist call, no playlist.
C8_EmptyLibraryFails ==
    nSaved = 0
        => /\ pc \in {"CreatePlaylist", "GetLiked", "Returned", "Failed"}
           /\ StageCalls = 0
           /\ calls.createPlaylist = 0 /\ calls.addTracks = 0
           /\ calls.currentUser <= 1
           /\ playlist = [created |-> 0, adds |-> <<>>]
           /\ calls.savedTracks > 0 => (ret.err # "none" /\ ret.tracks = <<>>)

\* The endpoint was asked once, reported nothing, and the run has ended.
C8_Witness ==
    /\ nSaved = 0
    /\ pc = "Failed"
    /\ ret.err = "NoLikedSongs"
    /\ calls.savedTracks = 1

\* C9: a failed page of the liked-track fetch fails the assembler, with no
\* page kept and no stage call; the assembler goes past the fetch only with
\* every page fetched, and from there on no failed call ends it: it runs to
\* the post-processing and returns without error exactly if the pool then holds
\* a liked track.
C9_FailurePropagation ==
    /\ pc \in AssemblerPcs
            => (ret.err = "none" /\ likedTracks = 1..min(nSaved, LibraryCap))
    /\ ret.err = "FetchFailed"
            => (pc \in {"Returned", "Failed"} /\ likedTracks = {} /\ StageCalls = 0)
    /\ (pc = "Returned" /\ ret.err \notin {"FetchFailed", "NoLikedSongs"})
            => (ret.err = "none" <=> PoolHoldsLiked)

\* The audio-feature probe failed (the stage's only call) and the run still
\* returned tracks.
C9_Witness ==
    /\ pc = "Returned"
    /\ faults > 0
    /\ likedTrackIDs # <<>> /\ calls.audioFeatures = 1
    /\ ret.err = "none" /\ Len(ret.tracks) > 0

\* C10: when the pool holds more than 5 liked tracks and every track credits
\* the same single artist, the returned list has exactly 5 tracks, all of that
\* artist.
C10_SingleArtistExactlyFive ==
    (/\ pc = "Returned" /\ ret.err = "none"
     /\ credits = OneArtist
     /\ Len(FilterTracksByLikedSongs(allTracks, likedTracks)) > maxSongsPerArtist)
        => /\ Len(ret.tracks) = maxSongsPerArtist
           /\ \A i \in 1..Len(ret.tracks) : ret.tracks[i].artists = <<1>>

\* The spec's case: 60 liked tracks of one artist, all in the pool, 5 returned.
C10_Witness ==
    /\ pc = "Returned" /\ ret.err = "none"
    /\ nSaved = 60 /\ credits = OneArtist
    /\ Len(allTracks) = 60
    /\ Len(ret.tracks) = 5

\* What the genre stage appended to the pool, and what the stages after it did.
GenreYield == SubSeq(allTracks, poolLog[1] + 1, poolLog[2])

LaterYield == SubSeq(allTracks, poolLog[2] + 1, Len(allTracks))

\* Scenario A of the spec at the return of the assembler: a library of 10
\* tracks, mood "relaxed", the audio-feature probe denied (the stage's only
\* call) and the genre stage matching exactly t1, t3 and t5.
ScenarioA ==
    /\ pc = "Returned" /\ ret.err = "none"
    /\ nSaved = 10 /\ mood = "relaxed"
    /\ Len(poolLog) = 4
    /\ calls.audioFeatures = 1 /\ poolLog[1] = 0
    /\ Range(IDs(GenreYield)) = {1, 3, 5}

\* C11 as stated: in scenario A, whatever the later stages' calls return, the
\* returned list is a subset of {t1, t3, t5}, has at most 3 tracks and credits
\* no artist more than 5 times.
C11_ScenarioA_Stated ==
    ScenarioA
        => /\ Range(IDs(ret.tracks)) \subseteq {1, 3, 5}
           /\ Len(ret.tracks) <= 3
           /\ \A a \in ArtistIDs(ret.tracks) :
                 CreditCount(ret.tracks, a) <= maxSongsPerArtist

\* C11 amended: in scenario A the returned list is a subset of {t1, t3, t5}
\* together with the tracks the playlist and recommendation stages admitted,
\* all of them liked, and credits no artist more than 5 times; when those
\* stages admit nothing it is a subset of {t1, t3, t5} of at most 3 tracks.
C11_ScenarioA_Amended ==
    ScenarioA
        => /\ Range(IDs(ret.tracks)) \subseteq {1, 3, 5} \cup Range(IDs(LaterYield))
           /\ Range(IDs(LaterYield)) \subseteq likedTracks
           /\ \A a \in ArtistIDs(ret.tracks) :
                 CreditCount(ret.tracks, a) <= maxSongsPerArtist
           /\ LaterYield = <<>>
                 => (Range(IDs(ret.tracks)) \subseteq {1, 3, 5} /\ Len(ret.tracks) <= 3)

\* Scenario A with the later stages asked and admitting nothing: t1, t3 and t5
\* are returned.
C11_Witness ==
    /\ ScenarioA
    /\ LaterYield = <<>>
    /\ calls.search > 0 /\ calls.recommendations > 0
    /\ Range(IDs(ret.tracks)) = {1, 3, 5}

-----------------------------------------------------------------------------
(* GetPersonalizedRecommendations called with a mood of the caller's choice *)

\* The moods matched by name in GetMoodThresholds and GetMoodMatchingGenres.
NamedMoods == {"energetic", "relaxed", "intense", "thoughtful"}

\* Mood strings that no switch of the package names.
OtherMoods == {"whimsical", "neutral", ""}

InitMood ==
    /\ pc = "GetLiked"
    /\ \E w \in {x \in Worlds : x[1] <= 6} : nSaved = w[1] /\ credits = w[2]
    /\ featureAnswers \in FeatureProfiles
    /\ mood \in OtherMoods
    /\ likedTracks = {}
    /\ likedArtists = {}
    /\ topArtists = <<>>
    /\ topTracks = <<>>
    /\ likedTrackIDs = <<>>
    /\ userLikedSongs = <<>>
    /\ allTracks = <<>>
    /\ seenTrackIDs = {}
    /\ poolLog = <<>>
    /\ ret = [tracks |-> <<>>, err |-> "none"]
    /\ calls = NoCalls
    /\ faults = 0
    /\ playlist = [created |-> 0, adds |-> <<>>]
    /\ writer = WriterIdle
    /\ server = ServerIdle
    /\ artistGenreCache = <<>>
    /\ mining = MiningIdle
    /\ sentLog = NothingSent

NextMood ==
    \/ GetLiked
    \/ GetLikedArtists
    \/ GetUserTopArtists
    \/ GetUserTopTracks
    \/ FetchLikedSongs
    \/ AudioStage
    \/ GenreStage
    \/ PlaylistStage
    \/ RecommendStage
    \/ PostProcess

SpecMood == InitMood /\ [][NextMood]_vars

\* The band GetMoodThresholds returns for "neutral", written out (1134-1145).
NeutralBand == Thresholds(0, 100, 0, 100, 0, 100, 0, 300, 0, 0, 0, 0)

\* C12: for a mood outside {energetic, relaxed, intense, thoughtful}
\* GetMoodThresholds returns the band of "neutral", GetMoodMatchingGenres
\* returns the default genre list, and the run ends with no error other than
\* the ones every mood can meet: a failed or empty library fetch, or a pool
\* that holds no liked track.
C12_UnrecognizedMoodIsNeutral ==
    mood \notin NamedMoods =>
        /\ GetMoodThresholds(mood) = NeutralBand
        /\ GetMoodThresholds(mood) = GetMoodThresholds("neutral")
        /\ GetMoodMatchingGenres(mood) = <<"pop", "rock", "indie", "alternative">>
        /\ ret.err \in {"none", "FetchFailed", "NoLikedSongs", "NoMatch"}
        /\ ret.err \in {"FetchFailed", "NoLikedSongs"} => likedTracks = {}
        /\ ret.err = "NoMatch" => Range(IDs(allTracks)) \cap likedTracks = {}
        /\ (pc = "Returned" /\ Range(IDs(allTracks)) \cap likedTracks # {})
              => ret.err = "none"

\* A run with mood "whimsical" used the band and the genre list and returned
\* tracks.
C12_Witness ==
    /\ pc = "Returned" /\ mood = "whimsical"
    /\ ret.err = "none" /\ ret.tracks # <<>>
    /\ calls.audioFeatures > 0 /\ calls.getArtist > 0
    /\ poolLog[1] > 0 /\ poolLog[2] > poolLog[1]

-----------------------------------------------------------------------------
(* The end of the stages: lines 717-724 *)

\* C13: when the four stages leave the pool empty, the step that decides
\* whether the run fails issues one more search (the mood-keyword track
\* search) before it decides.
C13_FinalSearchBeforeFailure ==
    [][(pc = "PostProcess" /\ allTracks = <<>>)
          => calls'.search = calls.search + 1]_vars

-----------------------------------------------------------------------------
(* The diversity cap as a quota scan *)

\* One step of the quota scan.  st = [quota, kept].
QuotaStep(st, t) ==
    IF \A a \in Range(t.artists) : st.quota[a] > 0
    THEN [quota |-> [a \in DOMAIN st.quota |->
                        IF a \in Range(t.artists) THEN st.quota[a] - 1
                        ELSE st.quota[a]],
          kept |-> Append(st.kept, t)]
    ELSE st

\* Scan in pool order with a remaining quota of limit per artist.
QuotaLimit(tracks, limit) ==
    FoldRange(LAMBDA st, i : QuotaStep(st, tracks[i]), 1, Len(tracks),
              [quota |-> [a \in ArtistIDs(tracks) |-> limit], kept |-> <<>>]).kept

\* What the final step hands to the diversity cap (line 720).
CapInput == FilterTracksByLikedSongs(allTracks, likedTracks)

\* C14: on the list the pipeline hands to it, the diversity cap keeps what
\* the quota scan keeps (the earliest tracks of an artist with more than 5).
C14_CapIsQuotaScan ==
    pc = "PostProcess" =>
        LimitSongsPerArtist(CapInput, maxSongsPerArtist)
            = QuotaLimit(CapInput, maxSongsPerArtist)

-----------------------------------------------------------------------------
(* The audio-feature stage on one liked track, over a grid of feature vectors *)

\* Feature values in hundredths (tempo in BPM) on both sides of every bound
\* the bands use.
FeatureGrid ==
    [Energy : {30, 55, 70, 90}, Danceability : {40, 55, 70},
     Valence : {40, 65, 80}, Tempo : {90, 115, 128, 310},
     Acousticness : {0, 35, 60}, Instrumentalness : {0, 25, 40}]

\* The fields each composite literal of GetMoodThresholds writes; the others
\* keep Go's zero value.
WrittenBounds(m) ==
    CASE m = "energetic" ->
            {"MinEnergy", "MaxEnergy", "MinDanceability", "MaxDanceability",
             "MinValence", "MaxValence", "MinTempo", "MaxTempo",
             "MaxAcousticness", "MaxInstrumentalness"}
      [] m = "relaxed" ->
            {"MinEnergy", "MaxEnergy", "MinDanceability", "MaxDanceability",
             "MinValence", "MaxValence", "MinTempo", "MaxTempo",
             "MinAcousticness", "MaxInstrumentalness"}
      [] m = "intense" ->
            {"MinEnergy", "MaxEnergy", "MinDanceability", "MaxDanceability",
             "MinValence", "MaxValence", "MinTempo", "MaxTempo",
             "MaxAcousticness", "MaxInstrumentalness"}
      [] m = "thoughtful" ->
            {"MinEnergy", "MaxEnergy", "MinDanceability", "MaxDanceability",
             "MinValence", "MaxValence", "MinTempo", "MaxTempo",
             "MinAcousticness", "MinInstrumentalness"}
      [] OTHER ->
            {"MinEnergy", "MaxEnergy", "MinDanceability", "MaxDanceability",
             "MinValence", "MaxValence", "MinTempo", "MaxTempo"}

InitMatcher ==
    /\ pc = "AudioStage"
    /\ nSaved = 1
    /\ credits = OneArtist
    /\ featureAnswers \in {<<f>> : f \in FeatureGrid}
    /\ mood \in NamedMoods \cup {"neutral", "whimsical"}
    /\ likedTracks = GetUserLikedTracks(1, 0).ids
    /\ likedArtists = GetUserLikedArtists(OneArtist, 1, 0).ids
    /\ topArtists = TopArtistsOf(OneArtist)
    /\ topTracks = TopTracksOf(1)
    /\ likedTrackIDs = <<1>>
    /\ userLikedSongs = FullTracks(OneArtist, <<1>>)
    /\ allTracks = <<>>
    /\ seenTrackIDs = {}
    /\ poolLog = <<>>
    /\ ret = [tracks |-> <<>>, err |-> "none"]
    /\ calls = [NoCalls EXCEPT
                  !.savedTracks = GetUserLikedTracks(1, 0).calls
                                    + GetUserLikedArtists(OneArtist, 1, 0).calls,
                  !.topArtists = 1, !.topTracks = 1, !.getTracks = 1]
    /\ faults = 0
    /\ playlist = [created |-> 0, adds |-> <<>>]
    /\ writer = WriterIdle
    /\ server = ServerIdle
    /\ artistGenreCache = <<>>
    /\ mining = MiningIdle
    /\ sentLog = NothingSent

NextMatcher == AudioStage

SpecMatcher == InitMatcher /\ [][NextMatcher]_vars

\* The track's features break a bound that the band of mood m writes.
BreaksWrittenBound(f, m) ==
    LET th == GetMoodThresholds(m)
        w  == WrittenBounds(m)
    IN  \/ "MinEnergy" \in w /\ f.Energy < th.MinEnergy
        \/ "MaxEnergy" \in w /\ f.Energy > th.MaxEnergy
        \/ "MinDanceability" \in w /\ f.Danceability < th.MinDanceability
        \/ "MaxDanceability" \in w /\ f.Danceability > th.MaxDanceability
        \/ "MinValence" \in w /\ f.Valence < th.MinValence
        \/ "MaxValence" \in w /\ f.Valence > th.MaxValence
        \/ "MinTempo" \in w /\ f.Tempo < th.MinTempo
        \/ "MaxTempo" \in w /\ f.Tempo > th.MaxTempo
        \/ "MinAcousticness" \in w /\ f.Acousticness < th.MinAcousticness
        \/ "MaxAcousticness" \in w /\ f.Acousticness > th.MaxAcousticness
        \/ "MinInstrumentalness" \in w /\ f.Instrumentalness < th.MinInstrumentalness
        \/ "MaxInstrumentalness" \in w /\ f.Instrumentalness > th.MaxInstrumentalness

\* A step of the audio-feature stage in which every call was answered.
AnsweredAudioStep == pc = "AudioStage" /\ faults' = faults

\* C15: a track the stage-1 filter rejects breaks a min or max that is set
\* for the mood; an unset bound rejects nothing.
C15_UnsetBoundNeverRejects ==
    [][(AnsweredAudioStep /\ allTracks' = allTracks)
          => BreaksWrittenBound(featureAnswers[1], mood)]_vars

\* C16: for "neutral" and every unrecognized mood the stage-1 filter accepts
\* every liked track whose features are returned.
C16_NeutralAcceptsAll ==
    [][(AnsweredAudioStep /\ mood \notin NamedMoods)
          => IDs(allTracks') = likedTrackIDs]_vars

\* C17: for "relaxed" the stage-1 filter accepts a track exactly when
\* energy <= 0.5, acousticness >= 0.4 and tempo <= 110.
C17_RelaxedBand ==
    [][(AnsweredAudioStep /\ mood = "relaxed")
          => (IDs(allTracks') = likedTrackIDs
                <=> /\ featureAnswers[1].Energy <= 50
                    /\ featureAnswers[1].Acousticness >= 40
                    /\ featureAnswers[1].Tempo <= 110)]_vars

\* C18: for "thoughtful" the stage-1 filter accepts a track exactly when
\* energy <= 0.6, acousticness >= 0.3, instrumentalness >= 0.2 and
\* tempo <= 120.
C18_ThoughtfulBand ==
    [][(AnsweredAudioStep /\ mood = "thoughtful")
          => (IDs(allTracks') = likedTrackIDs
                <=> /\ featureAnswers[1].Energy <= 60
                    /\ featureAnswers[1].Acousticness >= 30
                    /\ featureAnswers[1].Instrumentalness >= 20
                    /\ featureAnswers[1].Tempo <= 120)]_vars

\* C19: for "energetic" the stage-1 filter accepts a track exactly when
\* energy >= 0.7, danceability >= 0.6, valence >= 0.5, 120 <= tempo <= 300,
\* acousticness <= 0.4 and instrumentalness <= 0.3.
C19_EnergeticBand ==
    [][(AnsweredAudioStep /\ mood = "energetic")
          => (IDs(allTracks') = likedTrackIDs
                <=> /\ featureAnswers[1].Energy >= 70
                    /\ featureAnswers[1].Danceability >= 60
                    /\ featureAnswers[1].Valence >= 50
                    /\ featureAnswers[1].Tempo >= 120
                    /\ featureAnswers[1].Tempo <= 300
                    /\ featureAnswers[1].Acousticness <= 40
                    /\ featureAnswers[1].Instrumentalness <= 30)]_vars

-----------------------------------------------------------------------------
(* Paging of the liked library: GetUserLikedTracks and GetUserLikedArtists *)

\* Library sizes around a page, around the cap and beyond it.
LibrarySizes ==
    {0, 1, 49, 50, 51, 99, 100, 101, 500, 949, 950, 951, 999, 1000, 1001, 1050,
     1200}

InitPaging ==
    /\ pc = "GetLiked"
    /\ nSaved \in LibrarySizes
    /\ credits = OneArtist
    /\ featureAnswers = <<Plain>>
    /\ mood = "neutral"
    /\ likedTracks = {}
    /\ likedArtists = {}
    /\ topArtists = <<>>
    /\ topTracks = <<>>
    /\ likedTrackIDs = <<>>
    /\ userLikedSongs = <<>>
    /\ allTracks = <<>>
    /\ seenTrackIDs = {}
    /\ poolLog = <<>>
    /\ ret = [tracks |-> <<>>, err |-> "none"]
    /\ calls = NoCalls
    /\ faults = 0
    /\ playlist = [created |-> 0, adds |-> <<>>]
    /\ writer = WriterIdle
    /\ server = ServerIdle
    /\ artistGenreCache = <<>>
    /\ mining = MiningIdle
    /\ sentLog = NothingSent

NextPaging ==
    \/ GetLiked
    \/ GetLikedArtists

SpecPaging == InitPaging /\ [][NextPaging]_vars

\* The paging of the library of this state when every page is answered.
Paging == LikedTracksLoop(nSaved, 0, 0, {}, <<>>)

\* C20: GetUserLikedTracks requests pages of 50 at offsets 0, 50, 100, ...,
\* stops at the first page with fewer than 50 items or after 20 pages,
\* whichever comes first, and so makes at most 20 requests and indexes at
\* most 1000 track IDs (the first 1000 of the library); GetUserLikedArtists
\* pages the same way.
C20_PagingBounded ==
    /\ Paging.calls = Len(Paging.offsets)
    /\ \A i \in 1..Len(Paging.offsets) : Paging.offsets[i] = 50 * (i - 1)
    /\ Paging.calls = min(20, (nSaved \div 50) + 1)
    /\ Paging.calls <= 20
    /\ Paging.ids = 1..min(nSaved, 1000)
    /\ Cardinality(GetUserLikedTracks(nSaved, 0).ids) <= 1000
    /\ GetUserLikedTracks(nSaved, 0).calls = Paging.calls
    /\ GetUserLikedArtists(credits, nSaved, 0).calls = Paging.calls
    /\ Cardinality(likedTracks) <= 1000
    /\ calls.savedTracks <= 2 * 20
    /\ pc = "GetLikedArtists" => calls.savedTracks <= 20
    /\ (pc = "GetLikedArtists" /\ faults = 0)
          => calls.savedTracks = Paging.calls /\ likedTracks = Paging.ids
    /\ (pc = "GetTopArtists" /\ faults = 0)
          => calls.savedTracks = 2 * Paging.calls

\* A library of more than 1000 tracks was indexed with 20 requests.
C20_Witness ==
    /\ pc = "GetLikedArtists" /\ nSaved > 1000 /\ faults = 0
    /\ calls.savedTracks = 20
    /\ likedTracks = 1..1000

-----------------------------------------------------------------------------
(* CreatePlaylistAndAddTracks called with a list of the caller's choice *)

\* Lengths of the lists handed to the writer: none, few, the playlist size and
\* beyond.
WriterSizes == {0, 1, 2, 3, 5, 20, 50, 51, 60, 100}

InitWriter ==
    /\ pc = "WriterUser"
    /\ nSaved \in WriterSizes
    /\ credits \in {OneArtist, ManyArtists}
    /\ featureAnswers = <<>>
    /\ mood = "neutral"
    /\ likedTracks = {}
    /\ likedArtists = {}
    /\ topArtists = <<>>
    /\ topTracks = <<>>
    /\ likedTrackIDs = <<>>
    /\ userLikedSongs = <<>>
    /\ allTracks = <<>>
    /\ seenTrackIDs = {}
    /\ poolLog = <<>>
    /\ \E order \in {SetToSeq(1..nSaved), Reverse(SetToSeq(1..nSaved))} :
          ret = [tracks |-> FullTracks(credits, order), err |-> "none"]
    /\ calls = NoCalls
    /\ faults = 0
    /\ playlist = [created |-> 0, adds |-> <<>>]
    /\ writer = WriterIdle
    /\ server = ServerIdle
    /\ artistGenreCache = <<>>
    /\ mining = MiningIdle
    /\ sentLog = NothingSent

NextWriter ==
    \/ WriterUser
    \/ WriterCreate
    \/ WriterAdd

SpecWriter == InitWriter /\ [][NextWriter]_vars

\* Calls of the writer: get-current-user, create-playlist, add-tracks.
WriterCalls == calls.currentUser + calls.createPlaylist + calls.addTracks

\* C21: called with an empty track list, CreatePlaylistAndAddTracks returns
\* an error and calls none of get-current-user, create-playlist and
\* add-tracks-to-playlist.
C21_EmptyListRejected ==
    ret.tracks = <<>> =>
        /\ pc \in {"WriterUser", "Failed"}
        /\ writer.reqs = <<>>
        /\ WriterCalls = 0
        /\ playlist = [created |-> 0, adds |-> <<>>]
        /\ pc = "Failed" => writer.err = "NoTracksProvided"

\* The writer was called with an empty list and has returned its error.
C21_Witness ==
    /\ ret.tracks = <<>>
    /\ pc = "Failed"
    /\ writer = [reqs |-> <<>>, err |-> "NoTracksProvided"]
    /\ WriterCalls = 0

\* The order in which the writer calls the catalog.
WriterOrder == <<"CurrentUser", "CreatePlaylistForUser", "AddTracksToPlaylist">>

\* C22: CreatePlaylistAndAddTracks calls get-current-user, then
\* create-playlist, then add-tracks, in that order and each at most once; a
\* failed get-current-user leaves no playlist created, a failed
\* create-playlist leaves add-tracks uncalled, and each failure is returned
\* as an error.
C22_WriterCallOrder ==
    /\ Len(writer.reqs) <= 3
    /\ writer.reqs = SubSeq(WriterOrder, 1, Len(writer.reqs))
    /\ pc \in {"WriterUser", "WriterCreate", "WriterAdd"} => writer.err = ""
    /\ pc = "WriterCreate" => writer.reqs = <<"CurrentUser">>
    /\ pc = "WriterAdd" => writer.reqs = <<"CurrentUser", "CreatePlaylistForUser">>
    /\ writer.err = "UserLookupFailed"
          => /\ pc = "Failed"
             /\ writer.reqs = <<"CurrentUser">>
             /\ playlist = [created |-> 0, adds |-> <<>>]
    /\ writer.err = "PlaylistCreateFailed"
          => /\ pc = "Failed"
             /\ writer.reqs = <<"CurrentUser", "CreatePlaylistForUser">>
             /\ playlist = [created |-> 0, adds |-> <<>>]
    /\ writer.err = "AddTracksFailed"
          => pc = "Failed" /\ writer.reqs = WriterOrder
    /\ writer.err = "nil" => pc = "Succeeded" /\ writer.reqs = WriterOrder
    /\ (pc = "Failed" /\ writer.reqs # <<>>)
          => writer.err \in {"UserLookupFailed", "PlaylistCreateFailed",
                             "AddTracksFailed"}

\* The writer called get-current-user and create-playlist; the latter failed.
C22_Witness ==
    /\ pc = "Failed"
    /\ writer.err = "PlaylistCreateFailed"
    /\ calls.createPlaylist = 1 /\ calls.addTracks = 0
    /\ ret.tracks # <<>>

\* C23: if add-tracks fails after the playlist was created, the writer
\* returns an error and issues no further call: the created playlist stays in
\* the account, empty, and the run has failed.
C23_NoCleanupAfterFailedAdd ==
    writer.err = "AddTracksFailed" =>
        /\ pc = "Failed"
        /\ writer.reqs = WriterOrder
        /\ calls.currentUser <= 2 /\ calls.createPlaylist = 1 /\ calls.addTracks = 1
        /\ playlist = [created |-> 1, adds |-> <<>>]
        /\ ~ENABLED NextWriter

\* A run whose add-tracks call failed after its create-playlist call succeeded.
C23_Witness ==
    /\ writer.err = "AddTracksFailed"
    /\ pc = "Failed"
    /\ playlist.created = 1 /\ playlist.adds = <<>>
    /\ Len(ret.tracks) > 1

\* C24: on a successful run the created playlist receives exactly the track
\* IDs of the assembled list, in the same order, through a single add-tracks
\* call of at most 50 IDs, and it is not written to again in that run.
C24_SingleOrderedAdd ==
    /\ Len(playlist.adds) <= 1
    /\ playlist.created <= 1
    /\ calls.addTracks <= 1
    /\ playlist.adds # <<>> => pc = "Succeeded"
    /\ pc = "Succeeded" =>
          /\ playlist.created = 1
          /\ calls.createPlaylist = 1 /\ calls.addTracks = 1
          /\ Len(playlist.adds) = 1
          /\ Len(playlist.adds[1]) = Len(ret.tracks)
          /\ \A i \in 1..Len(ret.tracks) : playlist.adds[1][i] = ret.tracks[i].id
          /\ Len(playlist.adds[1]) <= 50
          /\ ~ENABLED Next

\* A successful run that wrote a full playlist of 50 tracks, not in id order.
C24_Witness ==
    /\ pc = "Succeeded"
    /\ Len(ret.tracks) = 50
    /\ Len(playlist.adds) = 1 /\ Len(playlist.adds[1]) = 50
    /\ playlist.adds[1][1] > playlist.adds[1][2]

-----------------------------------------------------------------------------
(* The HTTP server: server.go *)

\* Number of requests to the create-playlist endpoints in a behaviour.
MaxRequests == 2

Requests == 1..MaxRequests

Endpoints == {"/create-playlist-weather", "/create-playlist-genre"}

\* server.go 26-27
AuthEndpoints == {"/callback", "/success"}

\* net/http serves every request in a goroutine of its own.  A request is at
\* "arrived", "run" (inside CreatePlaylistWeather or CreatePlaylistGenre),
\* "respond", "verify" (a callback between the assignment of line 176 and the
\* check of line 179) or "done".  outcome is how the request's run ended;
\* before is authenticatedClient as the callback found it.
InitServer ==
    /\ pc = "Serving"
    /\ nSaved = 0
    /\ credits = OneArtist
    /\ featureAnswers = <<>>
    /\ mood = ""
    /\ likedTracks = {}
    /\ likedArtists = {}
    /\ topArtists = <<>>
    /\ topTracks = <<>>
    /\ likedTrackIDs = <<>>
    /\ userLikedSongs = <<>>
    /\ allTracks = <<>>
    /\ seenTrackIDs = {}
    /\ poolLog = <<>>
    /\ ret = [tracks |-> <<>>, err |-> "none"]
    /\ calls = NoCalls
    /\ faults = 0
    /\ playlist = [created |-> 0, adds |-> <<>>]
    /\ writer = WriterIdle
    /\ artistGenreCache = <<>>
    /\ mining = MiningIdle
    /\ sentLog = NothingSent
    /\ \E client \in BOOLEAN :
         \E h \in [Requests -> [endpoint : Endpoints \cup AuthEndpoints,
                                method : {"POST", "GET"},
                                at : {"arrived"}, response : {""},
                                outcome : {""}, before : {FALSE}]] :
            server = [authenticatedClient |-> client, handler |-> h]

run == <<pc, catalog, mood, library, stage1, pool, ret, calls, faults, playlist,
         writer, artistGenreCache, mining, sentLog>>

\* server.go 37-43, 98-104 and the else branches 94-96, 155-157: the method
\* check and the test of authenticatedClient.
HandlerCheck(r) ==
    /\ server.handler[r].endpoint \in Endpoints
    /\ server.handler[r].at = "arrived"
    /\ server' = [server EXCEPT !.handler[r] =
          IF @.method # "POST"
          THEN [@ EXCEPT !.at = "done", !.response = "MethodNotAllowed"]
          ELSE IF server.authenticatedClient
          THEN [@ EXCEPT !.at = "run"]
          ELSE [@ EXCEPT !.at = "done", !.response = "RedirectLogin"]]
    /\ UNCHANGED run

\* How a playlist-generation run ends (user.go 88-148): with the playlist
\* created and filled, or at one of its early returns.
RunOutcomes ==
    {"Created", "WeatherIncomplete", "RecommendationsFailed", "NoTracks",
     "WriterFailed"}

\* server.go 44, 105: the playlist-generation run called by the handler
\* returns; it returns no value.
HandlerRun(r) ==
    /\ server.handler[r].at = "run"
    /\ \E o \in RunOutcomes :
          server' = [server EXCEPT !.handler[r] =
                        [@ EXCEPT !.at = "respond", !.outcome = o]]
    /\ UNCHANGED run

\* server.go 45-93, 106-154: the page written after the run.
HandlerRespond(r) ==
    /\ server.handler[r].at = "respond"
    /\ server' = [server EXCEPT !.handler[r] =
                     [@ EXCEPT !.at = "done", !.response = "PlaylistCreated"]]
    /\ UNCHANGED run

\* server.go 159-176: the state check and the token exchange of a callback;
\* with a token the client is stored in authenticatedClient.
CallbackToken(r) ==
    /\ server.handler[r].endpoint = "/callback"
    /\ server.handler[r].at = "arrived"
    /\ \E got \in {"StateMismatch", "TokenFailed", "Token"} :
          server' = IF got = "Token"
                    THEN [authenticatedClient |-> TRUE,
                          handler |-> [server.handler EXCEPT ![r] =
                                [@ EXCEPT !.at = "verify",
                                          !.before = server.authenticatedClient]]]
                    ELSE [server EXCEPT !.handler[r] =
                                [@ EXCEPT !.at = "done", !.response = got,
                                          !.before = server.authenticatedClient]]
    /\ UNCHANGED run

\* server.go 178-188: the current-user call that verifies the new client.
CallbackVerify(r) ==
    /\ server.handler[r].at = "verify"
    /\ \E ok \in BOOLEAN :
          server' = [server EXCEPT !.handler[r] =
                        [@ EXCEPT !.at = "done",
                                  !.response = IF ok THEN "RedirectSuccess"
                                               ELSE "UserDetailsFailed"]]
    /\ UNCHANGED run

\* server.go 191-195
SuccessHandler(r) ==
    /\ server.handler[r].endpoint = "/success"
    /\ server.handler[r].at = "arrived"
    /\ server' = [server EXCEPT !.handler[r] =
                     [@ EXCEPT !.at = "done",
                               !.response = IF server.authenticatedClient
                                            THEN "SuccessPage"
                                            ELSE "RedirectLogin"]]
    /\ UNCHANGED run

NextServer ==
    \E r \in Requests :
        \/ HandlerCheck(r)
        \/ HandlerRun(r)
        \/ HandlerRespond(r)
        \/ CallbackToken(r)
        \/ CallbackVerify(r)
        \/ SuccessHandler(r)

SpecServer == InitServer /\ [][NextServer]_vars

\* The requests whose playlist-generation run has started and not returned.
InFlight == {r \in DOMAIN server.handler : server.handler[r].at = "run"}

\* C25: at most one playlist-generation run is in flight at any time for the
\* process-wide authenticated client.
C25_OneRunInFlight == Cardinality(InFlight) <= 1

-----------------------------------------------------------------------------
(* Mood lookups *)

AllMoods == NamedMoods \cup OtherMoods

-----------------------------------------------------------------------------
(* The probe of the audio-feature stage *)

\* A step of the audio-feature stage that made one request only: the probe,
\* which failed.
ProbeFailedStep ==
    /\ pc = "AudioStage"
    /\ likedTrackIDs # <<>>
    /\ calls'.audioFeatures = calls.audioFeatures + 1

\* C27: AnalyzeAudioFeaturesForMood first probes with the first min(5, n)
\* liked IDs; if the probe fails no further audio-feature request is made,
\* stage 1 adds nothing to the pool, the run does not fail because of it, and
\* the genre stage runs next.
C27_FailedProbeSkipsStage ==
    [][/\ pc = "AudioStage"
          => /\ AnalyzeAudioFeaturesForMood(likedTrackIDs, mood, featureAnswers, 0).probe
                  = SubSeq(likedTrackIDs, 1, min(5, Len(likedTrackIDs)))
             /\ AnalyzeAudioFeaturesForMood(likedTrackIDs, mood, featureAnswers, 1).calls
                  = min(1, Len(likedTrackIDs))
       /\ ProbeFailedStep
          => /\ faults' = faults + 1
             /\ allTracks' = <<>> /\ seenTrackIDs' = {}
             /\ poolLog' = <<0>>
             /\ ret' = [tracks |-> <<>>, err |-> "none"]
             /\ pc' = "GenreStage"
       /\ (pc = "GenreStage" /\ calls.audioFeatures = 1 /\ userLikedSongs # <<>>)
          => calls'.getArtist > calls.getArtist
       /\ (pc = "PostProcess" /\ calls.audioFeatures = 1)
          => ret'.err \in {"none", "NoMatch"}]_vars

\* After a failed probe the genre stage ran and filled the pool.
C27_Witness ==
    /\ pc = "PlaylistStage"
    /\ calls.audioFeatures = 1 /\ faults = 1
    /\ Len(likedTrackIDs) > 5
    /\ poolLog = <<0, Len(allTracks)>>
    /\ calls.getArtist > 0
    /\ allTracks # <<>>

-----------------------------------------------------------------------------
(* The pool at the stage boundaries *)

\* The run is between two stages, or between the last stage and the final
\* filter.
AtStageBoundary ==
    pc \in {"GenreStage", "PlaylistStage", "RecommendStage", "PostProcess"}

\* C28: at every stage boundary every track of the pool has an id of the
\* liked-track set, so the final re-filter has nothing to drop.
C28_PoolWithinLibraryAtBoundaries ==
    AtStageBoundary =>
        /\ \A i \in 1..Len(allTracks) : allTracks[i].id \in likedTracks
        /\ FilterTracksByLikedSongs(allTracks, likedTracks) = allTracks

-----------------------------------------------------------------------------
(* Artist lookups of the genre stage *)

\* C29: during the genre stage get-artist is called at most once for each
\* distinct artist id, whether the lookup succeeds or fails: the stage issues
\* no more lookups than the liked records credit distinct artists.
C29_OneLookupPerArtist ==
    [][pc = "GenreStage"
          => calls'.getArtist - calls.getArtist
                <= Cardinality(ArtistIDs(userLikedSongs))]_vars


-----------------------------------------------------------------------------
(* Admission by the genre stage *)

\* Libraries larger than the stage cap, and small ones, for the runs that
\* exercise the genre stage up to its cap of 100 tracks.
GenreWorlds ==
    {<<0, OneArtist>>, <<1, OneArtist>>, <<10, TenArtists>>,
     <<120, OneArtist>>, <<120, ManyArtists>>}

InitGenre ==
    /\ pc = "CreatePlaylist"
    /\ \E w \in GenreWorlds : nSaved = w[1] /\ credits = w[2]
    /\ featureAnswers \in {<<Plain>>, <<Hype, Calm>>}
    /\ mood = ""
    /\ likedTracks = {}
    /\ likedArtists = {}
    /\ topArtists = <<>>
    /\ topTracks = <<>>
    /\ likedTrackIDs = <<>>
    /\ userLikedSongs = <<>>
    /\ allTracks = <<>>
    /\ seenTrackIDs = {}
    /\ poolLog = <<>>
    /\ ret = [tracks |-> <<>>, err |-> "none"]
    /\ calls = NoCalls
    /\ faults = 0
    /\ playlist = [created |-> 0, adds |-> <<>>]
    /\ writer = WriterIdle
    /\ server = ServerIdle
    /\ artistGenreCache = <<>>
    /\ mining = MiningIdle
    /\ sentLog = NothingSent

\* The run up to the end of the genre stage.
NextGenre ==
    \/ CreatePlaylist
    \/ GetLiked
    \/ GetLikedArtists
    \/ GetUserTopArtists
    \/ GetUserTopTracks
    \/ FetchLikedSongs
    \/ AudioStage
    \/ GenreStage

SpecGenre == InitGenre /\ [][NextGenre]_vars

\* Lines 498-513: the tag, lowered, equals a keyword of the mood's genre list
\* or contains one.
TagFitsMood(tag, m) ==
    \E k \in Range(GetMoodMatchingGenres(m)) :
        \/ ToLower(tag) = ToLower(k)
        \/ Contains(ToLower(tag), ToLower(k))

\* The artists whose genres are in the cache and carry a tag that fits the
\* mood.
FittingArtists(cache, m) ==
    {a \in DOMAIN cache : \E tag \in Range(cache[a]) : TagFitsMood(tag, m)}

\* The records the step appended to the pool.
Appended == SubSeq(allTracks', Len(allTracks) + 1, Len(allTracks'))

-----------------------------------------------------------------------------
(* Runs that reach the later stages *)

\* A library whose capped pool is longer than a playlist and a small one that
\* leaves every stage to run.
LateWorlds == {<<66, ManyArtists>>, <<6, OneArtist>>}

InitLate ==
    /\ pc = "CreatePlaylist"
    /\ \E w \in LateWorlds : nSaved = w[1] /\ credits = w[2]
    /\ featureAnswers \in {<<Hype>>, <<Plain>>}
    /\ mood = ""
    /\ likedTracks = {}
    /\ likedArtists = {}
    /\ topArtists = <<>>
    /\ topTracks = <<>>
    /\ likedTrackIDs = <<>>
    /\ userLikedSongs = <<>>
    /\ allTracks = <<>>
    /\ seenTrackIDs = {}
    /\ poolLog = <<>>
    /\ ret = [tracks |-> <<>>, err |-> "none"]
    /\ calls = NoCalls
    /\ faults = 0
    /\ playlist = [created |-> 0, adds |-> <<>>]
    /\ writer = WriterIdle
    /\ server = ServerIdle
    /\ artistGenreCache = <<>>
    /\ mining = MiningIdle
    /\ sentLog = NothingSent

SpecLate == InitLate /\ [][Next]_vars

-----------------------------------------------------------------------------
(* Playlist mining *)

\* The pool size before the stage that ran last.
PoolBefore == poolLog[Len(poolLog) - 1]

\* The ids the stage that ran last appended to the pool.
AppendedIDs == [i \in 1..(Len(allTracks) - PoolBefore) |-> allTracks[PoolBefore + i].id]

-----------------------------------------------------------------------------
(* Seeds of the recommendation request *)

\* C32: every get-recommendations request of the run carries at most 5 seeds
\* in total, at most 2 artist seeds, each a top artist that is in the
\* liked-artist set, and track seeds that are all top tracks in the
\* liked-track set.
C32_SeedsBounded ==
    \A i \in 1..Len(sentLog.recommendations) :
        \E s \in {sentLog.recommendations[i].seeds} :
            /\ Len(s.Artists) + Len(s.Tracks) + Len(s.Genres) <= 5
            /\ Len(s.Artists) <= 2
            /\ \A a \in Range(s.Artists) : a \in Range(topArtists) /\ a \in likedArtists
            /\ \A t \in Range(s.Tracks) : t \in Range(topTracks) /\ t \in likedTracks

\* A request was sent with two artist seeds and track seeds filling the five
\* slots, while a top track that is not liked was left out.
C32_Witness ==
    /\ Len(sentLog.recommendations) = 1
    /\ Len(sentLog.recommendations[1].seeds.Artists) = 2
    /\ Len(sentLog.recommendations[1].seeds.Tracks) = 3
    /\ sentLog.recommendations[1].seeds.Genres = <<>>
    /\ \E t \in Range(topTracks) : t \notin likedTracks

-----------------------------------------------------------------------------
(* One view of the library *)

\* C33: once a run has built both sets, its liked-artist set is the union of
\* the artists credited on the tracks of its liked-track set, also when a
\* paging call failed while they were built.
C33_ArtistsOfTheLikedTracks ==
    pc \in AssemblerPcs \ {"GetLikedArtists"}
        => likedArtists = ArtistsOfTracks(credits, likedTracks)

-----------------------------------------------------------------------------
(* Order of the candidates *)

\* sub from index i on can be found, in order, in s from index j on.
RECURSIVE SubsequenceFrom(_, _, _, _)
SubsequenceFrom(sub, i, s, j) ==
    IF i > Len(sub) THEN TRUE
    ELSE IF j > Len(s) THEN FALSE
    ELSE IF sub[i] = s[j] THEN SubsequenceFrom(sub, i + 1, s, j + 1)
    ELSE SubsequenceFrom(sub, i, s, j + 1)

StagePcs == {"AudioStage", "GenreStage", "PlaylistStage", "RecommendStage"}

\* The pool after the membership re-filter and the diversity cap.
Capped ==
    LimitSongsPerArtist(FilterTracksByLikedSongs(allTracks, likedTracks),
                        maxSongsPerArtist)

\* C34: every stage only appends to the pool; the membership re-filter and
\* the diversity cap each return a subsequence of their input; the list
\* returned is drawn from the capped list and has its length cut to 50, so the
\* cap comes before the shuffle and the truncation after it.
C34_OrderKeptUntilShuffle ==
    [][/\ pc \in StagePcs
             => /\ Len(allTracks) <= Len(allTracks')
                /\ SubSeq(allTracks', 1, Len(allTracks)) = allTracks
       /\ pc = "PostProcess"
             => \E f \in {FilterTracksByLikedSongs(allTracks, likedTracks)} :
                   \E l \in {LimitSongsPerArtist(f, maxSongsPerArtist)} :
                      /\ SubsequenceFrom(f, 1, allTracks, 1)
                      /\ SubsequenceFrom(l, 1, f, 1)
                      /\ ret'.err = "none"
                            => /\ Range(ret'.tracks) \subseteq Range(l)
                               /\ Len(ret'.tracks) = min(50, Len(l))]_vars

\* A run returned 50 tracks out of a capped list that is longer, the cap
\* having dropped tracks of the pool, and the list returned is not the first 50
\* of the capped list: it holds a track from behind them.
C34_Witness ==
    /\ pc = "Returned"
    /\ ret.err = "none"
    /\ Len(Capped) > 50
    /\ Len(Capped) < Len(allTracks)
    /\ Len(ret.tracks) = 50
    /\ \E i \in 51..Len(Capped) : Capped[i] \in Range(ret.tracks)

-----------------------------------------------------------------------------
(* Shuffle and truncation *)

\* C35: shuffle and truncation neither add nor duplicate tracks: whatever
\* permutation the shuffle draws, the list returned has no track twice, holds
\* tracks of the capped list only, and is a permutation of the capped list
\* when that has at most 50 tracks.
C35_ShuffleSelects ==
    [][(pc = "PostProcess" /\ ret'.err = "none")
          => \E l \in {Capped} :
                /\ \A i, j \in 1..Len(ret'.tracks) :
                      ret'.tracks[i] = ret'.tracks[j] => i = j
                /\ Range(ret'.tracks) \subseteq Range(l)
                /\ Len(l) <= 50
                      => /\ Len(ret'.tracks) = Len(l)
                         /\ Range(ret'.tracks) = Range(l)]_vars

\* A run returned a capped list of at most 50 tracks in another order than
\* the cap left it in.
C35_Witness ==
    /\ pc = "Returned"
    /\ ret.err = "none"
    /\ Len(Capped) <= 50
    /\ Len(ret.tracks) = Len(Capped)
    /\ ret.tracks # Capped

-----------------------------------------------------------------------------
(* Batches *)

\* C36: the get-tracks requests of stage 1 are batches of at most 20 ids in
\* which every liked id is sent exactly once; the audio-feature requests that
\* follow the probe are batches of at most 100 ids that cover every liked id
\* exactly once; no get-tracks, audio-feature or recommendation request of the
\* run exceeds its ceiling of 20, 100 and 100.
C36_BatchCeilings ==
    /\ \A b \in 1..Len(sentLog.getTracks) :
          Len(sentLog.getTracks[b]) \in 1..20
    /\ \A b \in 1..Len(sentLog.audioFeatures) :
          Len(sentLog.audioFeatures[b]) \in 1..100
    /\ \A i \in 1..Len(sentLog.recommendations) :
          sentLog.recommendations[i].limit <= 100
    /\ pc \in {"AudioStage", "GenreStage", "PlaylistStage", "RecommendStage"}
          => \E all \in {FoldRange(LAMBDA acc, b : acc \o sentLog.getTracks[b],
                                   1, Len(sentLog.getTracks), <<>>)} :
                /\ Len(all) = Cardinality(likedTracks)
                /\ Range(all) = likedTracks
    /\ Len(sentLog.audioFeatures) > 1
          => \E all \in {FoldRange(LAMBDA acc, b : acc \o sentLog.audioFeatures[b],
                                   2, Len(sentLog.audioFeatures), <<>>)} :
                /\ Len(sentLog.audioFeatures[1]) <= 5
                /\ Len(all) = Cardinality(likedTracks)
                /\ Range(all) = likedTracks

\* Stage 1 has sent more than 100 liked ids: several full get-tracks batches
\* and, after the probe, two audio-feature batches, the second a partial one.
C36_Witness ==
    /\ pc = "GenreStage"
    /\ Cardinality(likedTracks) > 100
    /\ Len(sentLog.getTracks) = 6
    /\ Len(sentLog.audioFeatures) = 3
    /\ Len(sentLog.audioFeatures[2]) = 100
    /\ Len(sentLog.audioFeatures[3]) = 20

-----------------------------------------------------------------------------
(* Login callback *)

\* C37: a /callback request that ends with an error response (state mismatch,
\* token exchange failure or failed current-user check) leaves
\* authenticatedClient as it was when the request came in; stated for a
\* request that no other callback runs alongside.
C37_FailedCallbackKeepsClient ==
    [][\A r \in Requests :
          (/\ server.handler[r].endpoint = "/callback"
           /\ server.handler[r].at # "done"
           /\ server'.handler[r].at = "done"
           /\ server'.handler[r].response
                 \in {"StateMismatch", "TokenFailed", "UserDetailsFailed"}
           /\ \A q \in Requests \ {r} :
                 server.handler[q].endpoint = "/callback"
                     => server.handler[q].at = "arrived")
              => server'.authenticatedClient = server'.handler[r].before]_vars

-----------------------------------------------------------------------------
(* The page after a run *)

\* C38: a create-playlist handler sends the "Playlist Created!" page only for
\* a run that created the playlist and added the tracks to it.
C38_PageOnlyAfterCreatedPlaylist ==
    \A r \in DOMAIN server.handler :
        server.handler[r].response = "PlaylistCreated"
            => server.handler[r].outcome = "Created"

-----------------------------------------------------------------------------
(* What the diversity cap removes *)

\* Libraries that bring an artist to exactly the limit, and over it, with
\* tracks of one artist and of several.
LimitWorlds ==
    {<<0, OneArtist>>, <<5, OneArtist>>, <<6, OneArtist>>, <<5, TenArtists>>,
     <<5, [width |-> 6, spread |-> 1]>>, <<7, [width |-> 2, spread |-> 2]>>}

InitLimit ==
    /\ pc = "CreatePlaylist"
    /\ \E w \in LimitWorlds : nSaved = w[1] /\ credits = w[2]
    /\ featureAnswers \in {<<Hype>>, <<Plain>>}
    /\ mood = ""
    /\ likedTracks = {}
    /\ likedArtists = {}
    /\ topArtists = <<>>
    /\ topTracks = <<>>
    /\ likedTrackIDs = <<>>
    /\ userLikedSongs = <<>>
    /\ allTracks = <<>>
    /\ seenTrackIDs = {}
    /\ poolLog = <<>>
    /\ ret = [tracks |-> <<>>, err |-> "none"]
    /\ calls = NoCalls
    /\ faults = 0
    /\ playlist = [created |-> 0, adds |-> <<>>]
    /\ writer = WriterIdle
    /\ server = ServerIdle
    /\ artistGenreCache = <<>>
    /\ mining = MiningIdle
    /\ sentLog = NothingSent

SpecLimit == InitLimit /\ [][Next]_vars

\* C39: LimitSongsPerArtist removes a track only if one of its credited
\* artists is credited on more than maxSongsPerArtist tracks of the input; an
\* input in which no artist is over the limit comes back unchanged.
C39_CapRemovesOnlyOverLimit ==
    pc = "PostProcess"
        => \E f \in {FilterTracksByLikedSongs(allTracks, likedTracks)} :
              \E over \in {{a \in ArtistIDs(f) :
                              Cardinality({i \in 1..Len(f) : a \in Range(f[i].artists)})
                                  > maxSongsPerArtist}} :
                 \E l \in {LimitSongsPerArtist(f, maxSongsPerArtist)} :
                    /\ \A i \in 1..Len(f) :
                          f[i] \notin Range(l) => Range(f[i].artists) \cap over # {}
                    /\ over = {} => l = f

\* The cap is about to run on tracks that credit several artists: one artist
\* is over the limit and a track of several artists is removed, while another
\* artist of the input stays within the limit.
C39_Witness ==
    /\ pc = "PostProcess"
    /\ Len(Capped) < Len(allTracks)
    /\ \E i \in 1..Len(allTracks) :
          /\ Len(allTracks[i].artists) > 1
          /\ allTracks[i] \notin Range(Capped)
    /\ \E a \in ArtistIDs(allTracks) :
          Cardinality({i \in 1..Len(allTracks) : a \in Range(allTracks[i].artists)}) <= maxSongsPerArtist

=============================================================================
